---- MODULE Spec2Model ----
(***************************************************************************)
(* Weather-Adjusted-Generation-Analytics: the synthetic time-series        *)
(* generation engine (mock_data/generate_weather.py and                    *)
(* mock_data/generate_generation.py).                                      *)
(*                                                                         *)
(* Numbers.  The program computes in float64.  Here every real quantity is *)
(* a fixed-point integer with three decimals (SCALE units per 1.0): wind   *)
(* speed in mm/s, power and energy in kW(h) (milli-MW), irradiance in      *)
(* mW/m2, percentages and factors in thousandths.  A product or a quotient *)
(* is rounded down to the grid, once per floating-point operation of the   *)
(* source.  Time is counted in minutes since 2023-01-01T00:00:00.          *)
(***************************************************************************)
EXTENDS Integers, Sequences, FiniteSets, TLC

VARIABLES
    pm,       \* the last call of a power-model function: arguments and result
    inp,      \* the arguments the synthesizers are called with
    rng,      \* numpy's process-wide generator: [seed, pos]
    others,   \* draws made from the generator by other code since the last call
    ret,      \* the last synthesizer call: its name and what it returned
    seen,     \* what the first call of each synthesizer returned
    fs,       \* the file system: the directories and the files under their paths
    sv,       \* the table and directory of the save calls, and what each call did
    th,       \* the synthesizer calls running in parallel threads of one process
    ing,      \* the ingestion run: its place, the calls it made, what it logged
    sn        \* the file sensor: its cursor, its last evaluation, the runs requested

vars == <<pm, inp, rng, others, ret, seen, fs, sv, th, ing, sn>>

(***************************************************************************)
(* Fixed-point arithmetic                                                  *)
(***************************************************************************)
SCALE == 10 * 10 * 10

Fx(n) == n * SCALE

FxMul(a, b) == (a * b) \div SCALE

FxDiv(a, b) == (a * SCALE) \div b

Min2(a, b) == IF a <= b THEN a ELSE b

Max2(a, b) == IF a >= b THEN a ELSE b

\* np.clip on one element
np_clip(x, lo, hi) == Min2(Max2(x, lo), hi)

\* np.abs on one element
np_abs(x) == IF x < 0 THEN 0 - x ELSE x

(***************************************************************************)
(* Power models (generate_generation.py)                                   *)
(***************************************************************************)
cut_in == 3 * SCALE

rated == 12 * SCALE

cut_out == 25 * SCALE

ramp_span == 9 * SCALE

\* ((w - 3) / 9) ** 3
ramp_cube(w) ==
    LET r == FxDiv(w - cut_in, ramp_span)
    IN  (r * r * r) \div (SCALE * SCALE)

wind_power_curve_rated_above(wind_speed, capacity_mw) ==
    LET idx == DOMAIN wind_speed
        mask_ramp == [i \in idx |-> wind_speed[i] >= cut_in /\ wind_speed[i] < rated]
        mask_rated == [i \in idx |-> wind_speed[i] > rated /\ wind_speed[i] < cut_out]
    IN  [i \in idx |->
            IF mask_rated[i] THEN capacity_mw
            ELSE IF mask_ramp[i] THEN FxMul(capacity_mw, ramp_cube(wind_speed[i]))
            ELSE 0]

wind_power_curve(wind_speed, capacity_mw) ==
    LET idx == DOMAIN wind_speed
        \* power = np.zeros_like(wind_speed)
        power0 == [i \in idx |-> 0]
        mask_ramp == [i \in idx |-> wind_speed[i] >= cut_in /\ wind_speed[i] < rated]
        power1 == [i \in idx |->
                     IF mask_ramp[i]
                     THEN FxMul(capacity_mw, ramp_cube(wind_speed[i]))
                     ELSE power0[i]]
        mask_rated == [i \in idx |-> wind_speed[i] >= rated /\ wind_speed[i] < cut_out]
        power2 == [i \in idx |-> IF mask_rated[i] THEN capacity_mw ELSE power1[i]]
        power3 == [i \in idx |-> IF wind_speed[i] >= cut_out THEN 0 ELSE power2[i]]
    IN  power3

efficiency == (85 * SCALE) \div 100

solar_power_output_no_floor(ghi, capacity_mw) ==
    [i \in DOMAIN ghi |->
        Min2(FxMul(FxMul(FxDiv(ghi[i], Fx(1000)), capacity_mw), efficiency), capacity_mw)]

solar_power_output(ghi, capacity_mw) ==
    LET idx == DOMAIN ghi
        power == [i \in idx |->
                    FxMul(FxMul(FxDiv(ghi[i], Fx(1000)), capacity_mw), efficiency)]
    IN  [i \in idx |-> np_clip(power[i], 0, capacity_mw)]

(***************************************************************************)
(* numpy: sine, and the process-wide random generator                      *)
(*                                                                         *)
(* np.sin(2*pi*num/den) is Bhaskara's rational approximation (error below  *)
(* 0.002), evaluated on the fixed-point grid.                              *)
(*                                                                         *)
(* A seeded generator yields a sequence that is a function of the seed     *)
(* alone.  Here the seed is read as a number in base 3 whose StreamLen     *)
(* digits are the successive raw outputs (repeating after StreamLen), so   *)
(* the seeds 0 .. 3^StreamLen - 1 range over every raw sequence.  A raw    *)
(* digit selects a low, a middle or a high value of the distribution.      *)
(***************************************************************************)
np_sin_turn(num, den) ==
    LET a == (2 * num) % (2 * den)
        p == IF a <= den THEN a ELSE a - den
        q == p * (den - p)
        v == (16 * q * SCALE) \div (5 * den * den - 4 * q)
    IN  IF a <= den THEN v ELSE 0 - v

StreamLen == 5

Seeds == 0 .. (3 ^ StreamLen - 1)

np_random_seed_keep(state, random_seed) == state

np_random_seed(state, random_seed) == [seed |-> random_seed, pos |-> 0]

\* the k-th next raw output of the generator (k = 0 is the next one)
raw(state, k) == (state.seed \div (3 ^ ((state.pos + k) % StreamLen))) % 3

advance(state, n) == [state EXCEPT !.pos = (@ + n) % StreamLen]

\* a standard normal deviate: -8, 0.5 or +8 standard deviations
standard_normal(r) ==
    CASE r = 0 -> 0 - 8 * SCALE
      [] r = 1 -> SCALE \div 2
      [] OTHER -> 8 * SCALE

\* a sample of [0, 1): 0, 0.5 or 0.999
random_sample(r) ==
    CASE r = 0 -> 0
      [] r = 1 -> SCALE \div 2
      [] OTHER -> SCALE - 1

\* np.random.normal(loc, scale, n), drawn from `state`
np_random_normal(state, loc, scale, n) ==
    [i \in 1 .. n |-> loc + FxMul(scale, standard_normal(raw(state, i - 1)))]

\* np.random.uniform(low, high, n), drawn from `state`
np_random_uniform(state, low, high, n) ==
    [i \in 1 .. n |-> low + FxMul(high - low, random_sample(raw(state, i - 1)))]

(***************************************************************************)
(* Strings, dates and the time grid                                        *)
(*                                                                         *)
(* A string is the sequence of its code points.  A date string is a record *)
(* [ok, date_only, doy, hh, mm]: a day of 2023 and a time of day, or (ok = *)
(* FALSE) a text that datetime.fromisoformat rejects.                      *)
(***************************************************************************)
RECURSIVE str_int(_)
\* str(n) for n >= 0
str_int(n) == IF n < 10 THEN <<48 + n>> ELSE Append(str_int(n \div 10), 48 + (n % 10))

\* s.zfill(width)
zfill(s, width) ==
    IF Len(s) >= width THEN s
    ELSE [i \in 1 .. (width - Len(s)) |-> 48] \o s

ASSET_PREFIX == <<65, 83, 83, 69, 84, 95>>

\* f"ASSET_{str(i + 1).zfill(3)}"
asset_name(i) == ASSET_PREFIX \o zfill(str_int(i + 1), 3)

SetMin(S) == CHOOSE x \in S : \A y \in S : x <= y

\* a < b for strings (code point order)
str_less(a, b) ==
    LET n == Min2(Len(a), Len(b))
        diff == {i \in 1 .. n : a[i] # b[i]}
    IN  IF diff = {} THEN Len(a) < Len(b)
        ELSE a[SetMin(diff)] < b[SetMin(diff)]

fromisoformat_end_of_day(s) ==
    ((s.doy - 1) * 24 + (IF s.date_only THEN 23 ELSE s.hh)) * 60 + s.mm

\* datetime.fromisoformat(s), in minutes since 2023-01-01T00:00:00
fromisoformat(s) == ((s.doy - 1) * 24 + s.hh) * 60 + s.mm

datetime_range_open(start, end) ==
    IF start >= end THEN <<>>
    ELSE [k \in 1 .. (((end - start - 1) \div 60) + 1) |-> start + 60 * (k - 1)]

\* pl.datetime_range(start, end, interval="1h", eager=True): both ends closed
datetime_range(start, end) ==
    IF start > end THEN <<>>
    ELSE [k \in 1 .. (((end - start) \div 60) + 1) |-> start + 60 * (k - 1)]

\* pl.col("timestamp").dt.hour()
dt_hour(t) == (t \div 60) % 24

\* pl.col("timestamp").dt.ordinal_day()
dt_ordinal_day(t) == (t \div (24 * 60)) + 1

\* pl.col("timestamp").dt.date()
dt_date(t) == (t \div (24 * 60)) + 1

\* pl.DataFrame({"timestamp": ...}).join(pl.DataFrame({"asset_id": ...}), how="cross")
cross_join(timestamps, asset_ids) ==
    [i \in 1 .. (Len(timestamps) * Len(asset_ids)) |->
        [timestamp |-> timestamps[((i - 1) \div Len(asset_ids)) + 1],
         asset_id |-> asset_ids[((i - 1) % Len(asset_ids)) + 1]]]

key_less_timestamp_only(a, b) == a.timestamp < b.timestamp

\* a sorts before b under ["timestamp", "asset_id"]
key_less(a, b) ==
    \/ a.timestamp < b.timestamp
    \/ a.timestamp = b.timestamp /\ str_less(a.asset_id, b.asset_id)

\* the rows that a stable sort puts before row i: those with a smaller key, and
\* those with an equal key that come earlier in the table
sorts_before(rows, i) ==
    {j \in 1 .. Len(rows) :
        \/ key_less(rows[j], rows[i])
        \/ j < i /\ ~key_less(rows[i], rows[j])}

\* df.sort(["timestamp", "asset_id"])
sort_rows(rows) ==
    LET place == CHOOSE f \in {[i \in 1 .. Len(rows) |->
                                   Cardinality(sorts_before(rows, i)) + 1]} : TRUE
    IN  [k \in 1 .. Len(rows) |-> rows[CHOOSE i \in 1 .. Len(rows) : place[i] = k]]

(***************************************************************************)
(* Weather synthesizer (generate_weather.py)                               *)
(*                                                                         *)
(* A call returns [status, columns, rows, state, draws, timestamps,        *)
(* gross_before]: "ok" with the table, or "raise"; the generator state it  *)
(* leaves; the batches it drew, in order; and three of its locals, the     *)
(* time grid, the rows of the result before the sort (unsorted) and        *)
(* (generation) per row of df the gross generation before the              *)
(* availability scaling, with the capacity of the row's asset.             *)
(***************************************************************************)
WEATHER_COLUMNS ==
    <<"timestamp", "asset_id", "wind_speed_mps", "wind_direction_deg", "ghi",
      "temperature_c", "pressure_hpa", "relative_humidity">>

\* 10 + 3 * np.sin(2 * np.pi * day_of_year / 365)
seasonal_wind_of(day_of_year) ==
    Fx(10) + FxMul(Fx(3), np_sin_turn(day_of_year, 365))

\* 1.5 * np.sin(2 * np.pi * (hour - 6) / 24)
diurnal_wind_of(hour) ==
    FxMul((15 * SCALE) \div 10, np_sin_turn(hour - 6, 24))

wind_speed_noclip(seasonal, diurnal, noise) == seasonal + diurnal + noise

\* np.clip(seasonal_wind + diurnal_wind + wind_noise, 0, 25)
wind_speed_of(seasonal, diurnal, noise) ==
    np_clip(seasonal + diurnal + noise, 0, Fx(25))

wind_direction_nowrap(base_direction, direction_change) ==
    base_direction + direction_change

\* (base_direction + direction_change) % 360
wind_direction_of(base_direction, direction_change) ==
    (base_direction + direction_change) % Fx(360)

\* 900 + 100 * np.sin(2 * np.pi * (day_of_year - 80) / 365)
max_ghi_of(day_of_year) ==
    Fx(900) + FxMul(Fx(100), np_sin_turn(day_of_year - 80, 365))

ghi_pattern_closed_window(hour, day_of_year) ==
    LET solar_hour == hour - 12
        eighth == FxDiv(Fx(solar_hour), Fx(8))
    IN  IF np_abs(solar_hour) <= 6
        THEN FxMul(max_ghi_of(day_of_year), Fx(1) - FxMul(eighth, eighth))
        ELSE 0

\* np.where(np.abs(solar_hour) < 6, max_ghi * (1 - (solar_hour / 8) ** 2), 0)
ghi_pattern_of(hour, day_of_year) ==
    LET solar_hour == hour - 12
        eighth == FxDiv(Fx(solar_hour), Fx(8))
    IN  IF np_abs(solar_hour) < 6
        THEN FxMul(max_ghi_of(day_of_year), Fx(1) - FxMul(eighth, eighth))
        ELSE 0

ghi_noclip(ghi_pattern, cloud_factor) == FxMul(ghi_pattern, cloud_factor)

\* np.clip(ghi_pattern * cloud_factor, 0, 1000)
ghi_of(ghi_pattern, cloud_factor) ==
    np_clip(FxMul(ghi_pattern, cloud_factor), 0, Fx(1000))

\* seasonal_temp + diurnal_temp + temp_noise
temperature_of(hour, day_of_year, temp_noise) ==
    (Fx(15) + FxMul(Fx(12), np_sin_turn(day_of_year - 80, 365)))
        + FxMul(Fx(5), np_sin_turn(hour - 6, 24))
        + temp_noise

\* base_pressure + seasonal_pressure + pressure_noise
pressure_of(day_of_year, pressure_noise) ==
    Fx(1013) + FxMul(Fx(5), np_sin_turn(day_of_year, 365)) + pressure_noise

relative_humidity_noclip(temperature, ghi, humidity_noise) ==
    Fx(65) + FxMul(0 - (SCALE \div 2), temperature - Fx(15))
        + FxMul(0 - (SCALE \div 100), ghi) + humidity_noise

\* np.clip(base_humidity + temp_effect + ghi_effect + humidity_noise, 20, 95)
relative_humidity_of(temperature, ghi, humidity_noise) ==
    np_clip(Fx(65) + FxMul(0 - (SCALE \div 2), temperature - Fx(15))
                + FxMul(0 - (SCALE \div 100), ghi) + humidity_noise,
            Fx(20), Fx(95))

weather_asset_ids_zero_based(asset_count) ==
    [i \in 1 .. asset_count |-> ASSET_PREFIX \o zfill(str_int(i - 1), 3)]

\* [f"ASSET_{str(i + 1).zfill(3)}" for i in range(asset_count)]
weather_asset_ids(asset_count) ==
    [i \in 1 .. asset_count |-> asset_name(i - 1)]

Raise(error, state, draws) ==
    [status |-> "raise", error |-> error, columns |-> <<>>, rows |-> <<>>,
     state |-> state, draws |-> draws, timestamps |-> <<>>, gross_before |-> <<>>,
     unsorted |-> <<>>]

Batch(name, size) == [name |-> name, size |-> size]

\* the position of asset a in asset_ids
IndexOf(seq, a) == CHOOSE j \in 1 .. Len(seq) : seq[j] = a

base_direction_first(asset_base_direction, asset_ids, a) == asset_base_direction[1]

\* asset_base_direction[a], the bearing drawn for asset a
base_direction_lookup(asset_base_direction, asset_ids, a) ==
    asset_base_direction[IndexOf(asset_ids, a)]

direction_change_size_scalar(n_rows) == 1

\* the size of the batch np.random.normal(0, 20, n_rows): one value per row
direction_change_size(n_rows) == n_rows

generate_weather_data(start_date, end_date, asset_count, random_seed, state) ==
    LET s0 == np_random_seed(state, random_seed)
        timestamps == datetime_range(fromisoformat(start_date), fromisoformat(end_date))
        asset_ids == weather_asset_ids(asset_count)
        base_df == cross_join(timestamps, asset_ids)
        n_rows == Len(base_df)
        idx == 1 .. n_rows
        hour == [i \in idx |-> dt_hour(base_df[i].timestamp)]
        day_of_year == [i \in idx |-> dt_ordinal_day(base_df[i].timestamp)]
        wind_noise == np_random_normal(s0, 0, Fx(2), n_rows)
        s1 == advance(s0, n_rows)
        wind_speed == [i \in idx |->
            wind_speed_of(seasonal_wind_of(day_of_year[i]), diurnal_wind_of(hour[i]),
                          wind_noise[i])]
        asset_base_direction ==
            [j \in 1 .. Len(asset_ids) |->
                np_random_uniform(advance(s1, j - 1), 0, Fx(360), 1)[1]]
        s2 == advance(s1, Len(asset_ids))
        base_direction == [i \in idx |->
            base_direction_lookup(asset_base_direction, asset_ids, base_df[i].asset_id)]
        direction_change == np_random_normal(s2, 0, Fx(20), n_rows)
        s3 == advance(s2, direction_change_size(n_rows))
        wind_direction == [i \in idx |->
            wind_direction_of(base_direction[i], direction_change[i])]
        ghi_pattern == [i \in idx |-> ghi_pattern_of(hour[i], day_of_year[i])]
        cloud_factor == np_random_uniform(s3, (7 * SCALE) \div 10, Fx(1), n_rows)
        s4 == advance(s3, n_rows)
        ghi == [i \in idx |-> ghi_of(ghi_pattern[i], cloud_factor[i])]
        temp_noise == np_random_normal(s4, 0, Fx(2), n_rows)
        s5 == advance(s4, n_rows)
        temperature == [i \in idx |-> temperature_of(hour[i], day_of_year[i], temp_noise[i])]
        pressure_noise == np_random_normal(s5, 0, Fx(5), n_rows)
        s6 == advance(s5, n_rows)
        pressure == [i \in idx |-> pressure_of(day_of_year[i], pressure_noise[i])]
        humidity_noise == np_random_normal(s6, 0, Fx(10), n_rows)
        s7 == advance(s6, n_rows)
        relative_humidity == [i \in idx |->
            relative_humidity_of(temperature[i], ghi[i], humidity_noise[i])]
        unsorted == [i \in idx |->
            [timestamp |-> base_df[i].timestamp,
             asset_id |-> base_df[i].asset_id,
             wind_speed_mps |-> wind_speed[i],
             wind_direction_deg |-> wind_direction[i],
             ghi |-> ghi[i],
             temperature_c |-> temperature[i],
             pressure_hpa |-> pressure[i],
             relative_humidity |-> relative_humidity[i]]]
        result == sort_rows(unsorted)
        draws == <<Batch("wind_noise", n_rows),
                   Batch("asset_base_direction", Len(asset_ids)),
                   Batch("direction_change", direction_change_size(n_rows)),
                   Batch("cloud_factor", n_rows),
                   Batch("temp_noise", n_rows),
                   Batch("pressure_noise", n_rows),
                   Batch("humidity_noise", n_rows)>>
    IN  IF ~start_date.ok \/ ~end_date.ok
        THEN Raise("ValueError", s0, <<>>)
        ELSE [status |-> "ok", error |-> "", columns |-> WEATHER_COLUMNS,
              rows |-> result, state |-> s7, draws |-> draws,
              timestamps |-> timestamps, gross_before |-> <<>>, unsorted |-> unsorted]

(***************************************************************************)
(* Generation synthesizer (generate_generation.py)                         *)
(*                                                                         *)
(* asset_configs is the dict in insertion order: a sequence of             *)
(* [asset_id, capacity_mw, type] with distinct ids.  weather_df is None    *)
(* ([present |-> FALSE]) or a table of [timestamp, asset_id,               *)
(* wind_speed_mps, ghi] rows; a driver value is <<v>>, or <<>> for null.   *)
(***************************************************************************)
GENERATION_COLUMNS ==
    <<"timestamp", "asset_id", "gross_generation_mwh", "net_generation_mwh",
      "curtailment_mwh", "availability_pct", "asset_capacity_mw">>

AssetConfig(i, capacity, type) ==
    [asset_id |-> asset_name(i - 1), capacity_mw |-> Fx(capacity), type |-> type]

ASSET_CONFIGS ==
    <<AssetConfig(1, 50, "wind"), AssetConfig(2, 75, "wind"),
      AssetConfig(3, 100, "wind"), AssetConfig(4, 45, "wind"),
      AssetConfig(5, 80, "wind"), AssetConfig(6, 30, "solar"),
      AssetConfig(7, 50, "solar"), AssetConfig(8, 40, "solar"),
      AssetConfig(9, 60, "solar"), AssetConfig(10, 35, "solar")>>

None == [present |-> FALSE, rows |-> <<>>]

\* asset_configs[asset_id]
config_of(asset_configs, asset_id) ==
    asset_configs[CHOOSE j \in 1 .. Len(asset_configs) :
                      asset_configs[j].asset_id = asset_id]

\* the rows of weather_df that match one base row, in table order; a base row
\* without a match is kept once, with null drivers
left_join_row(b, weather_rows) ==
    LET hits == {j \in 1 .. Len(weather_rows) :
                    /\ weather_rows[j].timestamp = b.timestamp
                    /\ weather_rows[j].asset_id = b.asset_id}
        pick[k \in 0 .. Len(weather_rows)] ==
            IF k = 0 THEN <<>>
            ELSE IF k \in hits
                 THEN Append(pick[k - 1],
                             [timestamp |-> b.timestamp, asset_id |-> b.asset_id,
                              wind_speed_mps |-> weather_rows[k].wind_speed_mps,
                              ghi |-> weather_rows[k].ghi])
                 ELSE pick[k - 1]
    IN  IF hits = {}
        THEN <<[timestamp |-> b.timestamp, asset_id |-> b.asset_id,
                wind_speed_mps |-> <<>>, ghi |-> <<>>]>>
        ELSE pick[Len(weather_rows)]

RECURSIVE left_join(_, _)
\* base_df.join(weather_df, on=["timestamp", "asset_id"], how="left")
left_join(base_df, weather_rows) ==
    IF base_df = <<>> THEN <<>>
    ELSE left_join_row(Head(base_df), weather_rows) \o left_join(Tail(base_df), weather_rows)

value_or_default(v) == IF v = <<>> THEN Fx(12) ELSE v[1]

\* `v if v else 0`: null and zero both give 0
value_or_zero(v) == IF v = <<>> THEN 0 ELSE v[1]

\* one pass of the row loop: the gross generation of a row
row_gross_generation(config_info, wind_speed_val, ghi_val) ==
    IF config_info.type = "wind"
    THEN wind_power_curve(<<value_or_zero(wind_speed_val)>>, config_info.capacity_mw)[1]
    ELSE solar_power_output(<<value_or_zero(ghi_val)>>, config_info.capacity_mw)[1]

\* gross_generation * performance_factor
apply_performance(gross, performance_factor) == FxMul(gross, performance_factor)

apply_loss_skipped(gross, loss_factor) == gross

\* gross_generation * loss_factor
apply_loss(gross, loss_factor) == FxMul(gross, loss_factor)

\* gross_generation / (asset_capacity + 1e-6); 1e-6 is below the grid
curtailment_probability_of(gross, asset_capacity) == FxDiv(gross, asset_capacity)

\* np.random.random(n_rows) < (curtailment_probability * 0.1)
curtailment_mask_of(draw, curtailment_probability) ==
    draw < FxMul(curtailment_probability, SCALE \div 10)

\* np.where(curtailment_mask, np.random.uniform(0.05, 0.15, n_rows) * gross_generation, 0)
curtailment_of(mask, fraction, gross) == IF mask THEN FxMul(fraction, gross) ELSE 0

curtailment_fraction_size_masked(curtailment_mask, n_rows) ==
    Cardinality({i \in DOMAIN curtailment_mask : curtailment_mask[i]})

\* the size of the batch np.random.uniform(0.05, 0.15, n_rows): one value per row
curtailment_fraction_size(curtailment_mask, n_rows) == n_rows

net_minus_curtailment_nofloor(net, curtailment) == net - curtailment

\* np.maximum(net_generation - curtailment, 0)
net_minus_curtailment(net, curtailment) == Max2(net - curtailment, 0)

availability_noclip(availability_variation) == Fx(95) + availability_variation

\* np.clip(base_availability + availability_variation, 85, 100)
availability_of(availability_variation) ==
    np_clip(Fx(95) + availability_variation, Fx(85), Fx(100))

\* availability / 100
availability_factor_of(availability) == FxDiv(availability, Fx(100))

scale_gross_unscaled(gross, availability_factor) == gross

\* gross_generation * availability_factor
scale_gross(gross, availability_factor) == FxMul(gross, availability_factor)

scale_net_unscaled(net, availability_factor) == net

\* net_generation * availability_factor
scale_net(net, availability_factor) == FxMul(net, availability_factor)

generate_generation_data(start_date, end_date, asset_configs, weather_df, random_seed, state) ==
    LET s0 == np_random_seed(state, random_seed)
        timestamps == datetime_range(fromisoformat(start_date), fromisoformat(end_date))
        asset_ids == [j \in 1 .. Len(asset_configs) |-> asset_configs[j].asset_id]
        base_df == cross_join(timestamps, asset_ids)
        n_rows == Len(base_df)
        idx == 1 .. n_rows
        \* the synthetic weather of the else branch
        hour == [i \in idx |-> dt_hour(base_df[i].timestamp)]
        day_of_year == [i \in idx |-> dt_ordinal_day(base_df[i].timestamp)]
        wind_noise == np_random_normal(s0, 0, Fx(2), n_rows)
        sa == advance(s0, n_rows)
        cloud_factor == np_random_uniform(sa, (7 * SCALE) \div 10, Fx(1), n_rows)
        sb == advance(sa, n_rows)
        synthetic == [i \in idx |->
            [timestamp |-> base_df[i].timestamp, asset_id |-> base_df[i].asset_id,
             wind_speed_mps |->
                <<wind_speed_of(seasonal_wind_of(day_of_year[i]),
                                diurnal_wind_of(hour[i]), wind_noise[i])>>,
             ghi |-> <<ghi_of(ghi_pattern_of(hour[i], day_of_year[i]), cloud_factor[i])>>]]
        df == IF weather_df.present THEN left_join(base_df, weather_df.rows) ELSE synthetic
        s1 == IF weather_df.present THEN s0 ELSE sb
        weather_draws == IF weather_df.present THEN <<>>
                         ELSE <<Batch("wind_noise", n_rows), Batch("cloud_factor", n_rows)>>
        asset_capacity == [i \in idx |-> config_of(asset_configs, df[i].asset_id).capacity_mw]
        gross0 == [i \in idx |->
            row_gross_generation(config_of(asset_configs, df[i].asset_id),
                                 df[i].wind_speed_mps, df[i].ghi)]
        performance_factor == np_random_uniform(s1, (95 * SCALE) \div 100, Fx(1), n_rows)
        s2 == advance(s1, n_rows)
        gross1 == [i \in idx |-> apply_performance(gross0[i], performance_factor[i])]
        loss_factor ==
            np_random_uniform(s2, (90 * SCALE) \div 100, (95 * SCALE) \div 100, n_rows)
        s3 == advance(s2, n_rows)
        net0 == [i \in idx |-> apply_loss(gross1[i], loss_factor[i])]
        curtailment_probability == [i \in idx |->
            curtailment_probability_of(gross1[i], asset_capacity[i])]
        mask_draw == np_random_uniform(s3, 0, Fx(1), n_rows)
        s4 == advance(s3, n_rows)
        curtailment_mask == [i \in idx |->
            curtailment_mask_of(mask_draw[i], curtailment_probability[i])]
        fraction ==
            np_random_uniform(s4, (5 * SCALE) \div 100, (15 * SCALE) \div 100, n_rows)
        s5 == advance(s4, curtailment_fraction_size(curtailment_mask, n_rows))
        curtailment == [i \in idx |->
            curtailment_of(curtailment_mask[i], fraction[i], gross1[i])]
        net1 == [i \in idx |-> net_minus_curtailment(net0[i], curtailment[i])]
        availability_variation == np_random_normal(s5, 0, Fx(5), n_rows)
        s6 == advance(s5, n_rows)
        availability == [i \in idx |-> availability_of(availability_variation[i])]
        availability_factor == [i \in idx |-> availability_factor_of(availability[i])]
        gross2 == [i \in idx |-> scale_gross(gross1[i], availability_factor[i])]
        net2 == [i \in idx |-> scale_net(net1[i], availability_factor[i])]
        unsorted == [i \in idx |->
            [timestamp |-> df[i].timestamp,
             asset_id |-> df[i].asset_id,
             gross_generation_mwh |-> gross2[i],
             net_generation_mwh |-> net2[i],
             curtailment_mwh |-> curtailment[i],
             availability_pct |-> availability[i],
             asset_capacity_mw |-> asset_capacity[i]]]
        result == sort_rows(unsorted)
        draws == weather_draws \o
                 <<Batch("performance_factor", n_rows),
                   Batch("loss_factor", n_rows),
                   Batch("curtailment_mask", n_rows),
                   Batch("curtailment_fraction",
                         curtailment_fraction_size(curtailment_mask, n_rows)),
                   Batch("availability_variation", n_rows)>>
    IN  IF ~start_date.ok \/ ~end_date.ok
        THEN Raise("ValueError", s0, <<>>)
        ELSE IF Len(df) > n_rows
        \* the row loop indexes the n_rows-long arrays by the row number of df
        THEN Raise("IndexError", s1, weather_draws)
        ELSE [status |-> "ok", error |-> "", columns |-> GENERATION_COLUMNS,
              rows |-> result, state |-> s6, draws |-> draws,
              timestamps |-> timestamps,
              gross_before |-> [i \in idx |->
                  [gross_generation |-> gross1[i], asset_capacity |-> asset_capacity[i]]],
              unsorted |-> unsorted]

(***************************************************************************)
(* Calls of the synthesizers                                               *)
(*                                                                         *)
(* The arguments are drawn once, in the initial state; every call of a     *)
(* behaviour is made with them, so two calls of one synthesizer are calls  *)
(* with identical arguments.  Between calls, other code of the process may *)
(* draw from the generator.                                                *)
(***************************************************************************)
MaxOtherDraws == 1

DateTime(doy, hh, mm) ==
    [ok |-> TRUE, date_only |-> FALSE, doy |-> doy, hh |-> hh, mm |-> mm]

DateOnly(doy) == [ok |-> TRUE, date_only |-> TRUE, doy |-> doy, hh |-> 0, mm |-> 0]

BadDate == [ok |-> FALSE, date_only |-> FALSE, doy |-> 1, hh |-> 0, mm |-> 0]

\* the ranges that shape the time grid
GridRanges ==
    {<<DateTime(1, 0, 0), DateTime(1, 3, 0)>>,
     <<DateTime(1, 0, 0), DateTime(1, 1, 30)>>,
     <<DateTime(1, 0, 30), DateTime(1, 2, 30)>>,
     <<DateTime(1, 0, 30), DateTime(1, 1, 0)>>,
     <<DateTime(1, 3, 0), DateTime(1, 0, 0)>>,
     <<DateTime(1, 1, 0), DateTime(1, 0, 30)>>,
     <<DateTime(2, 0, 0), DateTime(1, 23, 0)>>,
     <<DateOnly(1), DateOnly(1)>>,
     <<DateOnly(2), DateOnly(1)>>,
     <<DateTime(1, 23, 0), DateTime(2, 1, 0)>>,
     <<DateTime(80, 17, 0), DateTime(80, 18, 0)>>,
     <<BadDate, DateTime(1, 0, 0)>>}

AssetCounts == {0 - 1, 0, 1, 2, 3}

GridSeeds == {42, 3 ^ StreamLen - 1}

UNKNOWN_ASSET == ASSET_PREFIX \o <<57, 57, 57>>

\* asset_configs in several shapes: one wind asset, one solar asset, and a
\* dict whose keys are not in sorted order
ConfigSamples ==
    {<<AssetConfig(1, 50, "wind")>>,
     <<AssetConfig(8, 40, "solar")>>,
     <<AssetConfig(6, 30, "solar"), AssetConfig(3, 100, "wind")>>}

DriverSamples ==
    {[wind |-> <<0>>, ghi |-> <<0>>],
     [wind |-> <<6000>>, ghi |-> <<500000>>],
     [wind |-> <<12000>>, ghi |-> <<1000000>>],
     [wind |-> <<24990>>, ghi |-> <<1500000>>],
     [wind |-> <<25000>>, ghi |-> <<0 - 100000>>],
     [wind |-> <<0 - 1000>>, ghi |-> <<2000000>>],
     [wind |-> <<>>, ghi |-> <<>>]}

\* the ranges and asset counts under which every seed is tried
DrawShapes ==
    {<<<<DateTime(1, 12, 0), DateTime(1, 12, 0)>>, 1>>,
     <<<<DateTime(1, 12, 0), DateTime(1, 12, 0)>>, 2>>,
     <<<<DateTime(1, 7, 0), DateTime(1, 8, 30)>>, 1>>}

\* the asset_configs and supplied drivers under which every seed is tried: a
\* wind asset on the ramp, a solar asset below and above full irradiance, and
\* both kinds of asset at full output
DrawDrivers ==
    {<<<<AssetConfig(1, 50, "wind")>>, [wind |-> <<6000>>, ghi |-> <<500000>>]>>,
     <<<<AssetConfig(8, 40, "solar")>>, [wind |-> <<6000>>, ghi |-> <<500000>>]>>,
     <<<<AssetConfig(8, 40, "solar")>>, [wind |-> <<12000>>, ghi |-> <<1500000>>]>>,
     <<<<AssetConfig(6, 30, "solar"), AssetConfig(3, 100, "wind")>>,
       [wind |-> <<12000>>, ghi |-> <<1500000>>]>>}

WeatherKinds == {"full", "missing", "duplicate", "unknown"}

\* a supplied weather table over the grid of the call: complete, with the first
\* row missing, with the first row twice, or with a row of an unknown asset
SuppliedWeather(kind, start_date, end_date, asset_configs, d) ==
    LET timestamps ==
            IF start_date.ok /\ end_date.ok
            THEN datetime_range(fromisoformat(start_date), fromisoformat(end_date))
            ELSE <<>>
        asset_ids == [j \in 1 .. Len(asset_configs) |-> asset_configs[j].asset_id]
        grid == cross_join(timestamps, asset_ids)
        full == [i \in 1 .. Len(grid) |->
                    [timestamp |-> grid[i].timestamp, asset_id |-> grid[i].asset_id,
                     wind_speed_mps |-> d.wind, ghi |-> d.ghi]]
        rows == CASE kind = "full" -> full
                  [] kind = "missing" -> IF full = <<>> THEN full ELSE Tail(full)
                  [] kind = "duplicate" -> IF full = <<>> THEN full ELSE <<Head(full)>> \o full
                  [] OTHER ->
                        <<[timestamp |-> fromisoformat(DateTime(1, 0, 0)),
                           asset_id |-> UNKNOWN_ASSET,
                           wind_speed_mps |-> d.wind, ghi |-> d.ghi]>> \o full
    IN  [present |-> TRUE, rows |-> rows]

Input(range, asset_count, asset_configs, weather_df, random_seed) ==
    [start_date |-> range[1], end_date |-> range[2], asset_count |-> asset_count,
     asset_configs |-> asset_configs, weather_df |-> weather_df,
     random_seed |-> random_seed]

\* every seed, for the weather synthesizer
WeatherDrawInputs ==
    {Input(c[1], c[2], SubSeq(ASSET_CONFIGS, 1, c[2]), None, seed) :
        c \in DrawShapes, seed \in Seeds}

\* every seed, for the generation synthesizer
GenerationDrawInputs ==
    {Input(<<DateTime(1, 12, 0), DateTime(1, 12, 0)>>, Len(c), c, None, seed) :
        c \in ConfigSamples, seed \in Seeds}
    \cup
    {Input(<<DateTime(1, 12, 0), DateTime(1, 12, 0)>>, Len(c[1]), c[1],
           SuppliedWeather("full", DateTime(1, 12, 0), DateTime(1, 12, 0), c[1], c[2]),
           seed) :
        c \in DrawDrivers, seed \in Seeds}

\* every grid and asset count, for both
GridInputs ==
    {Input(r, n, SubSeq(ASSET_CONFIGS, 1, Max2(n, 0)), None, seed) :
        r \in GridRanges, n \in AssetCounts, seed \in GridSeeds}

\* every shape of supplied weather table
JoinInputs ==
    UNION {{Input(r, Len(c), c, SuppliedWeather(k, r[1], r[2], c, d), seed) :
               k \in WeatherKinds, d \in DriverSamples, seed \in GridSeeds} :
           r \in {<<DateTime(1, 0, 0), DateTime(1, 1, 0)>>,
                  <<DateTime(1, 3, 0), DateTime(1, 0, 0)>>},
           c \in ConfigSamples}

Inputs == WeatherDrawInputs \cup GenerationDrawInputs \cup GridInputs \cup JoinInputs

NoCall == [fn |-> "none", input |-> <<>>, capacity_mw |-> 0, output |-> <<>>]

\* an empty file system: the root directory and no file
NoFiles == [dirs |-> {<<>>}, files |-> <<>>]

NoSave == [table |-> <<>>, kind |-> "none", output_dir |-> <<>>, calls |-> <<>>]

NoThreads == <<>>

\* no ingestion has been started
NoIngestion ==
    [pc |-> "idle", weather_files |-> [given |-> FALSE, paths |-> <<>>],
     generation_files |-> [given |-> FALSE, paths |-> <<>>],
     calls |-> <<>>, log |-> <<>>, raised |-> <<>>]

\* the sensor has not been evaluated: context.cursor is None
NoSensor == [cursor |-> <<>>, last |-> <<>>, seen_files |-> {}, run_keys |-> <<>>]

NoRet ==
    [op |-> "none", nth |-> 0, status |-> "none", error |-> "", columns |-> <<>>,
     rows |-> <<>>, draws |-> <<>>, timestamps |-> <<>>, gross_before |-> <<>>,
     unsorted |-> <<>>]

NoneSeen == [generate_weather_data |-> <<>>, generate_generation_data |-> <<>>]

\* what a call returned; nth is 1 for the first call of a synthesizer, 2 for a later one
Returned(op, nth, r) ==
    [op |-> op, nth |-> nth, status |-> r.status, error |-> r.error,
     columns |-> r.columns, rows |-> r.rows, draws |-> r.draws,
     timestamps |-> r.timestamps, gross_before |-> r.gross_before,
     unsorted |-> r.unsorted]

\* the result of a call: the table it returned, or the exception
Result(out) ==
    [status |-> out.status, error |-> out.error, columns |-> out.columns, rows |-> out.rows]

\* the generator as the process starts: some state the caller did not choose
InitialState == [seed |-> 42, pos |-> 0]

Init ==
    /\ pm = NoCall
    /\ inp \in Inputs
    /\ rng = InitialState
    /\ others = 0
    /\ ret = NoRet
    /\ seen = NoneSeen
    /\ fs = NoFiles
    /\ sv = NoSave
    /\ th = NoThreads
    /\ ing = NoIngestion
    /\ sn = NoSensor

GenerateWeather ==
    \E r \in {generate_weather_data(inp.start_date, inp.end_date, inp.asset_count,
                                   inp.random_seed, rng)} :
    LET first == seen.generate_weather_data = <<>>
        out == Returned("generate_weather_data", IF first THEN 1 ELSE 2, r)
    IN  /\ ret' = out
        /\ rng' = r.state
        /\ others' = 0
        /\ seen' = IF first
                   THEN [seen EXCEPT !.generate_weather_data = <<Result(out)>>]
                   ELSE seen
        /\ UNCHANGED <<pm, inp, fs, sv, th, ing, sn>>

GenerateGeneration ==
    \E r \in {generate_generation_data(inp.start_date, inp.end_date, inp.asset_configs,
                                      inp.weather_df, inp.random_seed, rng)} :
    LET first == seen.generate_generation_data = <<>>
        out == Returned("generate_generation_data", IF first THEN 1 ELSE 2, r)
    IN  /\ ret' = out
        /\ rng' = r.state
        /\ others' = 0
        /\ seen' = IF first
                   THEN [seen EXCEPT !.generate_generation_data = <<Result(out)>>]
                   ELSE seen
        /\ UNCHANGED <<pm, inp, fs, sv, th, ing, sn>>

\* other code of the process draws one value from np.random
OtherDraw ==
    /\ others < MaxOtherDraws
    /\ rng' = advance(rng, 1)
    /\ others' = others + 1
    /\ UNCHANGED <<pm, inp, ret, seen, fs, sv, th, ing, sn>>

Next == GenerateWeather \/ GenerateGeneration \/ OtherDraw

Spec == Init /\ [][Next]_vars

(***************************************************************************)
(* Calls of the power models on bounded input vectors                      *)
(***************************************************************************)
MaxLen == 2

WindSamples ==
    {0 - 1000, 0, 2990, 3000, 3010, 6000, 11990, 12000, 12010, 24990, 25000, 40000}

GhiSamples ==
    {0 - 100000, 0, 1, 500000, 1000000, 1176000, 1177000, 1500000, 2000000}

CapacitySamples == {30000, 40000, 100000}

Vectors(S) == UNION {[1 .. n -> S] : n \in 0 .. MaxLen}

NoInput ==
    [start_date |-> 0, end_date |-> 0, asset_count |-> 0, asset_configs |-> <<>>,
     weather_df |-> 0, random_seed |-> 0]

CallWindPowerCurve ==
    /\ pm.fn = "none"
    /\ \E ws \in Vectors(WindSamples), c \in CapacitySamples :
          pm' = [fn |-> "wind_power_curve", input |-> ws, capacity_mw |-> c,
                 output |-> wind_power_curve(ws, c)]
    /\ UNCHANGED <<inp, rng, others, ret, seen, fs, sv, th, ing, sn>>

CallSolarPowerOutput ==
    /\ pm.fn = "none"
    /\ \E g \in Vectors(GhiSamples), c \in CapacitySamples :
          pm' = [fn |-> "solar_power_output", input |-> g, capacity_mw |-> c,
                 output |-> solar_power_output(g, c)]
    /\ UNCHANGED <<inp, rng, others, ret, seen, fs, sv, th, ing, sn>>

InitPower ==
    /\ pm = NoCall
    /\ inp = NoInput
    /\ rng = InitialState
    /\ others = 0
    /\ ret = NoRet
    /\ seen = NoneSeen
    /\ fs = NoFiles
    /\ sv = NoSave
    /\ th = NoThreads
    /\ ing = NoIngestion
    /\ sn = NoSensor

NextPower == CallWindPowerCurve \/ CallSolarPowerOutput

SpecPower == InitPower /\ [][NextPower]_vars

(***************************************************************************)
(* The irradiance of one row, for every hour of the day, every day of the  *)
(* year (of a leap year too) and cloud factors over [0.7, 1.0]             *)
(***************************************************************************)
Hours == 0 .. 23

DaysOfYear == 1 .. 366

CloudFactors == {700, 701, 775, 850, 925, 999, 1000}

\* ghi = np.clip(ghi_pattern * cloud_factor, 0, 1000) of one row
ComputeGhi ==
    /\ pm.fn = "none"
    /\ \E hour \in Hours, day_of_year \in DaysOfYear, cloud_factor \in CloudFactors :
          pm' = [fn |-> "ghi", input |-> <<hour, day_of_year, cloud_factor>>,
                 capacity_mw |-> 0,
                 output |-> <<ghi_of(ghi_pattern_of(hour, day_of_year), cloud_factor)>>]
    /\ UNCHANGED <<inp, rng, others, ret, seen, fs, sv, th, ing, sn>>

NextGhi == ComputeGhi

SpecGhi == InitPower /\ [][NextGhi]_vars

(***************************************************************************)
(* Partitioned writer (save_weather_parquet, save_generation_parquet)      *)
(*                                                                         *)
(* A path is <<output_dir, name>>: the directory as the sequence of its    *)
(* components and the file name as a string (its code points).  A file is  *)
(* [rows, footer]: the rows written to it and whether the Parquet footer,  *)
(* which the writer emits last and without which no reader accepts the     *)
(* file, has been written.  A write that fails leaves the rows written so  *)
(* far and no footer.                                                      *)
(***************************************************************************)
WEATHER_PREFIX == <<119, 101, 97, 116, 104, 101, 114, 95>>

GENERATION_PREFIX == <<103, 101, 110, 101, 114, 97, 116, 105, 111, 110, 95>>

PARQUET_SUFFIX == <<46, 112, 97, 114, 113, 117, 101, 116>>

ALL_NAME == <<97, 108, 108>>

\* the months of 2023
MonthLengths == <<31, 28, 31, 30, 31, 30, 31, 31, 30, 31, 30, 31>>

RECURSIVE DaysBefore(_)
DaysBefore(m) == IF m = 1 THEN 0 ELSE DaysBefore(m - 1) + MonthLengths[m - 1]

date_month(d) ==
    CHOOSE m \in 1 .. 12 : DaysBefore(m) < d /\ d <= DaysBefore(m) + MonthLengths[m]

date_day(d) == d - DaysBefore(date_month(d))

\* date_val.isoformat(): "2023-MM-DD"
isoformat(d) ==
    <<50, 48, 50, 51, 45>> \o zfill(str_int(date_month(d)), 2) \o <<45>>
        \o zfill(str_int(date_day(d)), 2)

RECURSIVE sorted_seq(_)
\* .sort("date") of a column of distinct values
sorted_seq(S) == IF S = {} THEN <<>> ELSE <<SetMin(S)>> \o sorted_seq(S \ {SetMin(S)})

\* df.select(pl.col("timestamp").dt.date().alias("date")).unique().sort("date")
unique_dates(df) == sorted_seq({dt_date(df[i].timestamp) : i \in DOMAIN df})

daily_df_upto(df, date_val) ==
    LET on(r) == dt_date(r.timestamp) <= date_val
    IN  SelectSeq(df, on)

\* df.filter(pl.col("timestamp").dt.date() == date_val)
daily_df(df, date_val) ==
    LET on(r) == dt_date(r.timestamp) = date_val
    IN  SelectSeq(df, on)

mkdir_no_parents(fsys, output_dir) == [fsys EXCEPT !.dirs = @ \cup {output_dir}]

mkdir_emptying(fsys, output_dir) ==
    LET kept == {p \in DOMAIN fsys.files : p[1] # output_dir}
    IN  [dirs |-> fsys.dirs \cup {SubSeq(output_dir, 1, k) : k \in 0 .. Len(output_dir)},
         files |-> IF kept = {} THEN <<>> ELSE [p \in kept |-> fsys.files[p]]]

\* output_dir.mkdir(parents=True, exist_ok=True)
mkdir(fsys, output_dir) ==
    [fsys EXCEPT !.dirs = @ \cup {SubSeq(output_dir, 1, k) : k \in 0 .. Len(output_dir)}]

write_parquet_append(fsys, output_path, rows) ==
    LET old == IF output_path \in DOMAIN fsys.files
               THEN fsys.files[output_path].rows ELSE <<>>
    IN  [fsys EXCEPT !.files = (output_path :> [rows |-> old \o rows, footer |-> TRUE]) @@ @]

\* df.write_parquet(output_path, compression="snappy"): creates or replaces the file
write_parquet(fsys, output_path, rows) ==
    [fsys EXCEPT !.files = (output_path :> [rows |-> rows, footer |-> TRUE]) @@ @]

write_parquet_interrupted_valid(fsys, output_path, rows, k) ==
    [fsys EXCEPT !.files =
        (output_path :> [rows |-> SubSeq(rows, 1, Min2(k, Len(rows))), footer |-> TRUE]) @@ @]

\* a write_parquet that fails after k rows: the file is there, without its footer
write_parquet_interrupted(fsys, output_path, rows, k) ==
    [fsys EXCEPT !.files =
        (output_path :> [rows |-> SubSeq(rows, 1, Min2(k, Len(rows))), footer |-> FALSE]) @@ @]

\* output_dir / f"weather_{date_str}.parquet"
partition_path(prefix, output_dir, date_val) ==
    <<output_dir, prefix \o isoformat(date_val) \o PARQUET_SUFFIX>>

\* output_dir / "weather_all.parquet"
all_path(prefix, output_dir) == <<output_dir, prefix \o ALL_NAME \o PARQUET_SUFFIX>>

\* the body shared by save_weather_parquet and save_generation_parquet, which
\* differ in the prefix of the file names.  fail = [at, len]: the at-th
\* write_parquet of the call fails after len rows (at = 0: no write fails).
\* Returns the file system, "ok" or "raise", and the paths written, in order.
save_parquet(prefix, fsys, df, output_dir, partition_by_date, fail) ==
    LET made == mkdir(fsys, output_dir)
        dates == unique_dates(df)
        n == Len(dates)
        paths == [i \in 1 .. n |-> partition_path(prefix, output_dir, dates[i])]
        last == IF fail.at \in 1 .. n THEN fail.at ELSE n
        loop[i \in 0 .. n] ==
            IF i = 0 THEN made
            ELSE IF i = fail.at
                 THEN write_parquet_interrupted(loop[i - 1], paths[i],
                                                daily_df(df, dates[i]), fail.len)
                 ELSE write_parquet(loop[i - 1], paths[i], daily_df(df, dates[i]))
        output_path == all_path(prefix, output_dir)
    IN  IF partition_by_date
        THEN [fs |-> loop[last],
              status |-> IF fail.at \in 1 .. n THEN "raise" ELSE "ok",
              written |-> SubSeq(paths, 1, last)]
        ELSE IF fail.at = 1
             THEN [fs |-> write_parquet_interrupted(made, output_path, df, fail.len),
                   status |-> "raise", written |-> <<output_path>>]
             ELSE [fs |-> write_parquet(made, output_path, df),
                   status |-> "ok", written |-> <<output_path>>]

save_weather_parquet(fsys, df, output_dir, partition_by_date, fail) ==
    save_parquet(WEATHER_PREFIX, fsys, df, output_dir, partition_by_date, fail)

save_generation_parquet(fsys, df, output_dir, partition_by_date, fail) ==
    save_parquet(GENERATION_PREFIX, fsys, df, output_dir, partition_by_date, fail)

(***************************************************************************)
(* Calls of the writer: a table and a directory are drawn in the initial   *)
(* state, and every save of a behaviour writes that table to that          *)
(* directory, partitioned or not, with or without a failing write.         *)
(***************************************************************************)
MaxSaves == 2

\* ranges over two dates, over the end of February, within one date, and empty
SaveRanges ==
    {<<DateTime(1, 23, 0), DateTime(2, 1, 0)>>,
     <<DateTime(59, 23, 0), DateTime(60, 0, 0)>>,
     <<DateTime(80, 17, 0), DateTime(80, 18, 0)>>,
     <<DateTime(1, 3, 0), DateTime(1, 0, 0)>>}

Reverse(rows) == [i \in 1 .. Len(rows) |-> rows[Len(rows) + 1 - i]]

\* tables as the synthesizers return them, and in another row order
SaveTables ==
    LET weather(r, n) == generate_weather_data(r[1], r[2], n, 42, InitialState).rows
        generation(r, c) ==
            generate_generation_data(r[1], r[2], c, None, 42, InitialState).rows
    IN  {[kind |-> "weather", rows |-> weather(r, n)] : r \in SaveRanges, n \in {1, 2}}
        \cup {[kind |-> "weather", rows |-> Reverse(weather(r, 2))] : r \in SaveRanges}
        \cup {[kind |-> "generation", rows |-> generation(r, c)] :
                 r \in SaveRanges, c \in ConfigSamples}

OutputDirs == {<<"data">>, <<"data", "raw", "weather">>}

\* the directory is absent, or there already
InitialFiles(output_dir) == {NoFiles, mkdir(NoFiles, output_dir)}

InitSave ==
    /\ pm = NoCall
    /\ inp = NoInput
    /\ rng = InitialState
    /\ others = 0
    /\ ret = NoRet
    /\ seen = NoneSeen
    /\ th = NoThreads
    /\ ing = NoIngestion
    /\ sn = NoSensor
    /\ \E t \in SaveTables, d \in OutputDirs :
          /\ sv = [table |-> t.rows, kind |-> t.kind, output_dir |-> d, calls |-> <<>>]
          /\ fs \in InitialFiles(d)

\* the number of write_parquet calls a save of the table makes
WritesOf(df, partition_by_date) == IF partition_by_date THEN Len(unique_dates(df)) ELSE 1

SaveCall(partition_by_date, before, r) ==
    [partition_by_date |-> partition_by_date, status |-> r.status,
     written |-> r.written, before |-> before, after |-> r.fs]

SaveWeather ==
    /\ sv.kind = "weather"
    /\ Len(sv.calls) < MaxSaves
    /\ \E partition_by_date \in BOOLEAN :
          \E at \in 0 .. WritesOf(sv.table, partition_by_date), len \in 0 .. Len(sv.table) :
              LET r == save_weather_parquet(fs, sv.table, sv.output_dir, partition_by_date,
                                            [at |-> at, len |-> len])
              IN  /\ fs' = r.fs
                  /\ sv' = [sv EXCEPT !.calls = Append(@, SaveCall(partition_by_date, fs, r))]
    /\ UNCHANGED <<pm, inp, rng, others, ret, seen, th, ing, sn>>

SaveGeneration ==
    /\ sv.kind = "generation"
    /\ Len(sv.calls) < MaxSaves
    /\ \E partition_by_date \in BOOLEAN :
          \E at \in 0 .. WritesOf(sv.table, partition_by_date), len \in 0 .. Len(sv.table) :
              LET r == save_generation_parquet(fs, sv.table, sv.output_dir,
                                               partition_by_date, [at |-> at, len |-> len])
              IN  /\ fs' = r.fs
                  /\ sv' = [sv EXCEPT !.calls = Append(@, SaveCall(partition_by_date, fs, r))]
    /\ UNCHANGED <<pm, inp, rng, others, ret, seen, th, ing, sn>>

NextSave == SaveWeather \/ SaveGeneration

SpecSave == InitSave /\ [][NextSave]_vars

(***************************************************************************)
(* Regeneration: saves into a directory that holds the files of an earlier *)
(* save, the partitions of a table over two dates and its _all file        *)
(***************************************************************************)
EarlierRange == <<DateTime(1, 23, 0), DateTime(2, 1, 0)>>

\* ranges over the second of the two dates, over both, over another date, and empty
RegeneratedRanges ==
    {<<DateTime(2, 0, 0), DateTime(2, 1, 0)>>,
     EarlierRange,
     <<DateTime(80, 17, 0), DateTime(80, 18, 0)>>,
     <<DateTime(1, 3, 0), DateTime(1, 0, 0)>>}

\* the table of a run, of the earlier one (random_seed 7) or of the new one (42)
RunTable(kind, range, random_seed) ==
    IF kind = "weather"
    THEN generate_weather_data(range[1], range[2], 2, random_seed, InitialState).rows
    ELSE generate_generation_data(range[1], range[2], SubSeq(ASSET_CONFIGS, 1, 2), None,
                                  random_seed, InitialState).rows

\* the directory after the earlier run saved its table in both modes
EarlierFiles(kind, table, output_dir) ==
    LET prefix == IF kind = "weather" THEN WEATHER_PREFIX ELSE GENERATION_PREFIX
        none == [at |-> 0, len |-> 0]
        daily == save_parquet(prefix, NoFiles, table, output_dir, TRUE, none).fs
    IN  save_parquet(prefix, daily, table, output_dir, FALSE, none).fs

InitRegenerate ==
    /\ pm = NoCall
    /\ inp = NoInput
    /\ rng = InitialState
    /\ others = 0
    /\ ret = NoRet
    /\ seen = NoneSeen
    /\ th = NoThreads
    /\ ing = NoIngestion
    /\ sn = NoSensor
    /\ \E kind \in {"weather", "generation"}, r \in RegeneratedRanges, d \in OutputDirs :
          \E earlier \in {RunTable(kind, EarlierRange, 7)}, table \in {RunTable(kind, r, 42)} :
              /\ sv = [table |-> table, kind |-> kind, output_dir |-> d, calls |-> <<>>]
              /\ fs \in {EarlierFiles(kind, earlier, d)}

SpecRegenerate == InitRegenerate /\ [][NextSave]_vars

(***************************************************************************)
(* Synthesizer calls in parallel threads of one process                    *)
(*                                                                         *)
(* np.random.seed and np.random.uniform / normal / random act on the one   *)
(* generator of the process, and a thread can be preempted between any two *)
(* of them.  A call is therefore the sequence of steps: reseed, one step   *)
(* per batch (the batches of generate_generation_data, in its order),      *)
(* return.  A thread holds the batches of its call and its place among     *)
(* them (pc), and records the raw values its batches took from the         *)
(* generator; the table it returns is the table generate_generation_data   *)
(* computes from exactly those values, obtained by running it on the       *)
(* generator whose stream they are (stream_seed).                          *)
(***************************************************************************)
Threads == {1, 2}

\* one-row generation calls on a supplied weather table
ParallelCalls ==
    {Input(<<DateTime(1, 12, 0), DateTime(1, 12, 0)>>, Len(c[1]), c[1],
           SuppliedWeather("full", DateTime(1, 12, 0), DateTime(1, 12, 0), c[1], c[2]), 0) :
        c \in {d \in DrawDrivers : Len(d[1]) = 1}}

\* the seed arguments of the two calls
ParallelSeeds == {<<42, 42>>, <<42, 7>>, <<100, 200>>, <<3 ^ StreamLen - 1, 0>>}

\* the batches a call draws, in order
batches_of(call, random_seed) ==
    generate_generation_data(call.start_date, call.end_date, call.asset_configs,
                             call.weather_df, random_seed, InitialState).draws

RECURSIVE stream_seed(_)
\* the seed of the generator whose stream starts with the raw values drawn
stream_seed(drawn) ==
    IF drawn = <<>> THEN 0 ELSE Head(drawn) + 3 * stream_seed(Tail(drawn))

InitParallel ==
    /\ pm = NoCall
    /\ inp \in ParallelCalls
    /\ rng = InitialState
    /\ others = 0
    /\ ret = NoRet
    /\ seen = NoneSeen
    /\ fs = NoFiles
    /\ sv = NoSave
    /\ ing = NoIngestion
    /\ sn = NoSensor
    /\ \E seeds \in ParallelSeeds :
          th = [t \in Threads |->
                   [pc |-> 0, random_seed |-> seeds[t],
                    batches |-> batches_of(inp, seeds[t]), drawn |-> <<>>,
                    status |-> "running", rows |-> <<>>]]

\* np.random.seed(random_seed), the first step of a call
ThreadSeed(t) ==
    /\ th[t].pc = 0
    /\ rng' = np_random_seed(rng, th[t].random_seed)
    /\ th' = [th EXCEPT ![t].pc = 1]
    /\ UNCHANGED <<pm, inp, others, ret, seen, fs, sv, ing, sn>>

\* the next np.random batch of the call
ThreadDraw(t) ==
    /\ th[t].pc \in 1 .. Len(th[t].batches)
    /\ LET size == th[t].batches[th[t].pc].size
       IN  /\ rng' = advance(rng, size)
           /\ th' = [th EXCEPT ![t].pc = @ + 1,
                               ![t].drawn = @ \o [k \in 1 .. size |-> raw(rng, k - 1)]]
    /\ UNCHANGED <<pm, inp, others, ret, seen, fs, sv, ing, sn>>

\* the rest of the call: the table computed from the values drawn
ThreadReturn(t) ==
    /\ th[t].status = "running"
    /\ th[t].pc = Len(th[t].batches) + 1
    /\ LET r == generate_generation_data(inp.start_date, inp.end_date, inp.asset_configs,
                                         inp.weather_df, stream_seed(th[t].drawn),
                                         InitialState)
       IN  th' = [th EXCEPT ![t].status = r.status, ![t].rows = r.rows]
    /\ UNCHANGED <<pm, inp, rng, others, ret, seen, fs, sv, ing, sn>>

NextParallel == \E t \in Threads : ThreadSeed(t) \/ ThreadDraw(t) \/ ThreadReturn(t)

SpecParallel == InitParallel /\ [][NextParallel]_vars

(***************************************************************************)
(* Ingestion (loaders/weather_loader.py, loaders/generation_loader.py,     *)
(* loaders/dlt_pipeline.py, config/settings.py)                            *)
(*                                                                         *)
(* dlt is outside the program: what get_*_pipeline and pipeline.run do is  *)
(* an outcome [at, exception, load_info] chosen by the environment, either *)
(* an exception raised at one of the two calls or the load info that       *)
(* pipeline.run returns, with the failed jobs of each of its packages      *)
(* (has_failed_jobs tells whether there is one).  A log record is [level,  *)
(* message, detail].  file_paths is None or a list of paths.               *)
(***************************************************************************)
LogEntry(level, message, detail) == [level |-> level, message |-> message, detail |-> detail]

NoFilePaths == [given |-> FALSE, paths |-> <<>>]

FilePaths(paths) == [given |-> TRUE, paths |-> paths]

LoadInfo(load_packages) ==
    [has_failed_jobs |-> \E p \in DOMAIN load_packages : load_packages[p] # <<>>,
     load_packages |-> load_packages]

Returns(load_packages) ==
    [at |-> "pipeline.run", exception |-> <<>>, load_info |-> LoadInfo(load_packages)]

Raises(at, exception) == [at |-> at, exception |-> <<exception>>, load_info |-> LoadInfo(<<>>)]

RECURSIVE failed_jobs_log(_)
\* for package in load_info.load_packages: for job in package.jobs["failed_jobs"]: logger.error
failed_jobs_log(load_packages) ==
    IF load_packages = <<>> THEN <<>>
    ELSE [j \in DOMAIN Head(load_packages) |->
             LogEntry("error", "Failed job", Head(load_packages)[j])]
         \o failed_jobs_log(Tail(load_packages))

ingestion_except_swallow(kind, exc) ==
    [status |-> "return", exception |-> <<>>,
     log |-> <<LogEntry("error", "ingestion failed", [kind |-> kind, exc |-> exc])>>]

\* except Exception as exc: logger.error(...); raise
ingestion_except(kind, exc) ==
    [status |-> "raise", exception |-> <<exc>>,
     log |-> <<LogEntry("error", "ingestion failed", [kind |-> kind, exc |-> exc])>>]

\* the body shared by run_weather_ingestion and run_generation_ingestion, which
\* differ in the pipeline, the resource and the wording of the log records
run_ingestion(kind, file_paths, outcome) ==
    LET start == <<LogEntry("info", "Starting data ingestion", kind)>>
        completed == <<LogEntry("info", "ingestion completed", kind)>>
        failures ==
            IF outcome.load_info.has_failed_jobs
            THEN <<LogEntry("error", "ingestion had failures", kind)>>
                     \o failed_jobs_log(outcome.load_info.load_packages)
            ELSE <<LogEntry("info", "All data loaded successfully", kind)>>
        handled == ingestion_except(kind, outcome.exception[1])
    IN  IF outcome.exception # <<>>
        THEN [status |-> handled.status, exception |-> handled.exception,
              log |-> start \o handled.log]
        ELSE [status |-> "return", exception |-> <<>>,
              log |-> start \o completed \o failures]

run_weather_ingestion(file_paths, outcome) == run_ingestion("weather", file_paths, outcome)

run_generation_ingestion(file_paths, outcome) ==
    run_ingestion("generation", file_paths, outcome)

\* the directories of Config.ensure_directories, in its order
ConfigDirectories ==
    <<<<"data", "raw">>, <<"data", "raw", "weather">>, <<"data", "raw", "generation">>,
      <<"data", "intermediate">>, <<"data", "processed">>,
      <<"dbt", "renewable_dbt", "profiles">>, <<"dags", "dagster_project">>>>

RECURSIVE ensure_directories(_, _)
\* for directory in directories: directory.mkdir(parents=True, exist_ok=True), up
\* to the n-th directory
ensure_directories(fsys, n) ==
    IF n = 0 THEN fsys ELSE mkdir(ensure_directories(fsys, n - 1), ConfigDirectories[n])

full_ingestion_except_swallow(state, exc) ==
    [state EXCEPT !.pc = "returned",
                  !.log = Append(@, LogEntry("error", "Full ingestion failed", exc))]

\* except Exception as exc: logger.error(...); raise
full_ingestion_except(state, exc) ==
    [state EXCEPT !.pc = "raised", !.raised = <<exc>>,
                  !.log = Append(@, LogEntry("error", "Full ingestion failed", exc))]

Call(fn, file_paths, outcome, r) ==
    [fn |-> fn, file_paths |-> file_paths, outcome |-> outcome,
     raised |-> r.exception, log |-> r.log]

Banner(title) ==
    <<LogEntry("info", "=", 60), LogEntry("info", title, ""), LogEntry("info", "=", 60)>>

(***************************************************************************)
(* A run of run_full_ingestion, one step per call it makes                 *)
(***************************************************************************)
Exceptions == {"OSError", "PipelineStepFailed"}

FailedJobs ==
    {[job_file_path |-> "weather.1.jsonl", failed_message |-> "nope"],
     [job_file_path |-> "generation.2.jsonl", failed_message |-> "constraint"]}

\* no package, packages without failed jobs, and packages with one or two
LoadPackages ==
    {<<>>, <<<<>>>>}
    \cup {<<<<j>>>> : j \in FailedJobs}
    \cup {<<<<>>, <<j, k>>>> : j \in FailedJobs, k \in FailedJobs}
    \cup {<<<<j>>, <<k>>>> : j \in FailedJobs, k \in FailedJobs}

Outcomes ==
    {Returns(p) : p \in LoadPackages}
    \cup {Raises(at, e) : at \in {"get_pipeline", "pipeline.run"}, e \in Exceptions}

FileArguments ==
    {NoFilePaths, FilePaths(<<>>),
     FilePaths(<<<<<<"data", "raw", "weather">>,
                   WEATHER_PREFIX \o isoformat(1) \o PARQUET_SUFFIX>>>>)}

\* run_full_ingestion(weather_files, generation_files) is called
StartFullIngestion ==
    /\ ing.pc = "idle"
    /\ \E weather_files \in FileArguments, generation_files \in FileArguments :
          ing' = [ing EXCEPT !.pc = "ensure_directories",
                             !.weather_files = weather_files,
                             !.generation_files = generation_files,
                             !.log = <<LogEntry("info", "Starting full ingestion", "")>>]
    /\ UNCHANGED <<pm, inp, rng, others, ret, seen, fs, sv, th, sn>>

\* config.ensure_directories(): every mkdir succeeds, or the n-th raises
EnsureDirectories ==
    /\ ing.pc = "ensure_directories"
    /\ \/ /\ fs' = ensure_directories(fs, Len(ConfigDirectories))
          /\ ing' = [ing EXCEPT
                        !.pc = "run_weather_ingestion",
                        !.calls = Append(@, [fn |-> "ensure_directories",
                                             file_paths |-> NoFilePaths,
                                             outcome |-> Returns(<<>>),
                                             raised |-> <<>>, log |-> <<>>])]
       \/ \E n \in DOMAIN ConfigDirectories, e \in Exceptions :
             /\ fs' = ensure_directories(fs, n - 1)
             /\ ing' = full_ingestion_except(
                          [ing EXCEPT
                              !.calls = Append(@, [fn |-> "ensure_directories",
                                                   file_paths |-> NoFilePaths,
                                                   outcome |-> Raises("mkdir", e),
                                                   raised |-> <<e>>, log |-> <<>>])],
                          e)
    /\ UNCHANGED <<pm, inp, rng, others, ret, seen, sv, th, sn>>

\* run_weather_ingestion(file_paths=weather_files)
RunWeatherIngestion ==
    /\ ing.pc = "run_weather_ingestion"
    /\ \E outcome \in Outcomes :
          LET r == run_weather_ingestion(ing.weather_files, outcome)
              called == [ing EXCEPT
                            !.log = @ \o Banner("WEATHER DATA INGESTION") \o r.log,
                            !.calls = Append(@, Call("run_weather_ingestion",
                                                     ing.weather_files, outcome, r))]
          IN  ing' = IF r.status = "raise"
                     THEN full_ingestion_except(called, r.exception[1])
                     ELSE [called EXCEPT !.pc = "run_generation_ingestion"]
    /\ UNCHANGED <<pm, inp, rng, others, ret, seen, fs, sv, th, sn>>

\* run_generation_ingestion(file_paths=generation_files), and the return
RunGenerationIngestion ==
    /\ ing.pc = "run_generation_ingestion"
    /\ \E outcome \in Outcomes :
          LET r == run_generation_ingestion(ing.generation_files, outcome)
              called == [ing EXCEPT
                            !.log = @ \o Banner("GENERATION DATA INGESTION") \o r.log,
                            !.calls = Append(@, Call("run_generation_ingestion",
                                                     ing.generation_files, outcome, r))]
          IN  ing' = IF r.status = "raise"
                     THEN full_ingestion_except(called, r.exception[1])
                     ELSE [called EXCEPT
                              !.pc = "returned",
                              !.log = @ \o Banner("FULL INGESTION COMPLETED SUCCESSFULLY")]
    /\ UNCHANGED <<pm, inp, rng, others, ret, seen, fs, sv, th, sn>>

InitIngest ==
    /\ pm = NoCall
    /\ inp = NoInput
    /\ rng = InitialState
    /\ others = 0
    /\ ret = NoRet
    /\ seen = NoneSeen
    /\ fs \in {NoFiles, ensure_directories(NoFiles, Len(ConfigDirectories))}
    /\ sv = NoSave
    /\ th = NoThreads
    /\ ing = NoIngestion
    /\ sn = NoSensor

NextIngest ==
    StartFullIngestion \/ EnsureDirectories \/ RunWeatherIngestion \/ RunGenerationIngestion

SpecIngest == InitIngest /\ [][NextIngest]_vars

(***************************************************************************)
(* File sensor (dags/dagster_project/sensors/__init__.py)                  *)
(*                                                                         *)
(* context.cursor is None (here the empty string) until the first          *)
(* update_cursor, then the decimal string last written.  An evaluation     *)
(* returns [run_request, cursor, files]: the RunRequest (<<>> for None),   *)
(* the cursor it leaves and the files its two globs found.                 *)
(***************************************************************************)
WEATHER_RAW_PATH == <<"data", "raw", "weather">>

GENERATION_RAW_PATH == <<"data", "raw", "generation">>

RUN_KEY_PREFIX == <<110, 101, 119, 95, 102, 105, 108, 101, 115, 95>>

RECURSIVE int_str(_)
\* int(s) of a string of decimal digits
int_str(s) ==
    IF s = <<>> THEN 0 ELSE int_str(SubSeq(s, 1, Len(s) - 1)) * 10 + (s[Len(s)] - 48)

\* Path.glob(prefix + "*.parquet"): the files of the directory whose name starts
\* with the prefix and ends in ".parquet"
glob(fsys, directory, prefix) ==
    {p \in DOMAIN fsys.files :
        /\ p[1] = directory
        /\ Len(p[2]) >= Len(prefix) + Len(PARQUET_SUFFIX)
        /\ SubSeq(p[2], 1, Len(prefix)) = prefix
        /\ SubSeq(p[2], Len(p[2]) - Len(PARQUET_SUFFIX) + 1, Len(p[2])) = PARQUET_SUFFIX}

file_count_changed(current_file_count, last_file_count) ==
    current_file_count # last_file_count

\* if current_file_count > last_file_count
new_files_detected(current_file_count, last_file_count) ==
    current_file_count > last_file_count

new_data_file_sensor(cursor, fsys) ==
    LET cursor_state == IF cursor = <<>> THEN <<48>> ELSE cursor
        last_file_count == int_str(cursor_state)
        weather_files == glob(fsys, WEATHER_RAW_PATH, WEATHER_PREFIX)
        generation_files == glob(fsys, GENERATION_RAW_PATH, GENERATION_PREFIX)
        current_file_count == Cardinality(weather_files) + Cardinality(generation_files)
    IN  IF new_files_detected(current_file_count, last_file_count)
        THEN [run_request |-> <<[run_key |-> RUN_KEY_PREFIX \o str_int(current_file_count)]>>,
              cursor |-> str_int(current_file_count),
              files |-> weather_files \cup generation_files]
        ELSE [run_request |-> <<>>, cursor |-> cursor,
              files |-> weather_files \cup generation_files]

(***************************************************************************)
(* Evaluations of the sensor, with files written to and deleted from the   *)
(* raw directories in between                                              *)
(***************************************************************************)
\* two weather partitions and a generation partition, and a file that neither
\* glob matches
RawFiles ==
    {partition_path(WEATHER_PREFIX, WEATHER_RAW_PATH, 1),
     partition_path(WEATHER_PREFIX, WEATHER_RAW_PATH, 2),
     partition_path(GENERATION_PREFIX, GENERATION_RAW_PATH, 1),
     partition_path(GENERATION_PREFIX, WEATHER_RAW_PATH, 1)}

\* what a file may hold: the first file is written with either table
RawTables(path) ==
    IF path = partition_path(WEATHER_PREFIX, WEATHER_RAW_PATH, 1)
    THEN {<<>>, <<[timestamp |-> 0, asset_id |-> asset_name(0)]>>}
    ELSE {<<>>}

\* a writer creates or overwrites a file of a raw directory
WriteRawFile ==
    /\ \E path \in RawFiles : \E rows \in RawTables(path) :
          /\ path[1] \in fs.dirs
          /\ fs' = write_parquet(fs, path, rows)
    /\ UNCHANGED <<pm, inp, rng, others, ret, seen, sv, th, ing, sn>>

\* a file of a raw directory is deleted
DeleteRawFile ==
    /\ \E path \in DOMAIN fs.files :
          LET rest == DOMAIN fs.files \ {path}
          IN  fs' = [fs EXCEPT !.files = IF rest = {} THEN <<>>
                                         ELSE [p \in rest |-> fs.files[p]]]
    /\ UNCHANGED <<pm, inp, rng, others, ret, seen, sv, th, ing, sn>>

\* dagster evaluates the sensor and stores the cursor
EvaluateSensor ==
    /\ LET r == new_data_file_sensor(sn.cursor, fs)
       IN  sn' = [cursor |-> r.cursor,
                  last |-> <<[run_request |-> r.run_request, files |-> r.files,
                              previous |-> sn.seen_files]>>,
                  seen_files |-> r.files,
                  run_keys |-> IF r.run_request = <<>> THEN sn.run_keys
                               ELSE Append(sn.run_keys, r.run_request[1].run_key)]
    /\ UNCHANGED <<pm, inp, rng, others, ret, seen, fs, sv, th, ing>>

InitSensor ==
    /\ pm = NoCall
    /\ inp = NoInput
    /\ rng = InitialState
    /\ others = 0
    /\ ret = NoRet
    /\ seen = NoneSeen
    /\ fs = ensure_directories(NoFiles, Len(ConfigDirectories))
    /\ sv = NoSave
    /\ th = NoThreads
    /\ ing = NoIngestion
    /\ sn = NoSensor

NextSensor == WriteRawFile \/ DeleteRawFile \/ EvaluateSensor

SpecSensor == InitSensor /\ [][NextSensor]_vars

(***************************************************************************)
(* The entry points of the two synthesizer modules: main() creates the     *)
(* configured directories, builds the table between the configured         *)
(* calendar dates and saves it in daily partitions.  The dates, the seed   *)
(* and the assets (the first ones of ASSET_CONFIGS) are the configuration. *)
(***************************************************************************)
MaxDays == 2

\* mock_start_date and mock_end_date: "YYYY-MM-DD" strings, in January and
\* across the end of February
MockRanges == {<<DateOnly(a), DateOnly(a + d)>> : a \in {1, 59}, d \in 0 .. MaxDays}

MockAssetCounts == {1, 2, 3}

MockSeeds == {42, 7}

MockInputs ==
    {Input(r, n, SubSeq(ASSET_CONFIGS, 1, n), None, seed) :
        r \in MockRanges, n \in MockAssetCounts, seed \in MockSeeds}

\* the rest of main() after the synthesizer returned: the partitioned save
main_save(kind, fsys, r, output_dir) ==
    IF r.status = "ok"
    THEN save_parquet(IF kind = "weather" THEN WEATHER_PREFIX ELSE GENERATION_PREFIX,
                      fsys, r.rows, output_dir, TRUE, [at |-> 0, len |-> 0])
    ELSE [fs |-> fsys, status |-> "raise", written |-> <<>>]

\* generate_weather.main()
MainWeather ==
    /\ sv.kind = "weather"
    /\ sv.calls = <<>>
    /\ \E dirs \in {ensure_directories(fs, Len(ConfigDirectories))} :
       \E r \in {generate_weather_data(inp.start_date, inp.end_date, inp.asset_count,
                                      inp.random_seed, rng)} :
       \E s \in {main_save("weather", dirs, r, WEATHER_RAW_PATH)} :
          /\ ret' = Returned("generate_weather_data", 1, r)
          /\ rng' = r.state
          /\ fs' = s.fs
          /\ sv' = [sv EXCEPT !.table = r.rows, !.output_dir = WEATHER_RAW_PATH,
                              !.calls = <<SaveCall(TRUE, dirs, s)>>]
    /\ UNCHANGED <<pm, inp, others, seen, th, ing, sn>>

\* generate_generation.main()
MainGeneration ==
    /\ sv.kind = "generation"
    /\ sv.calls = <<>>
    /\ \E dirs \in {ensure_directories(fs, Len(ConfigDirectories))} :
       \E r \in {generate_generation_data(inp.start_date, inp.end_date, inp.asset_configs,
                                         None, inp.random_seed, rng)} :
       \E s \in {main_save("generation", dirs, r, GENERATION_RAW_PATH)} :
          /\ ret' = Returned("generate_generation_data", 1, r)
          /\ rng' = r.state
          /\ fs' = s.fs
          /\ sv' = [sv EXCEPT !.table = r.rows, !.output_dir = GENERATION_RAW_PATH,
                              !.calls = <<SaveCall(TRUE, dirs, s)>>]
    /\ UNCHANGED <<pm, inp, others, seen, th, ing, sn>>

InitMain ==
    /\ pm = NoCall
    /\ inp \in MockInputs
    /\ rng = InitialState
    /\ others = 0
    /\ ret = NoRet
    /\ seen = NoneSeen
    /\ fs = NoFiles
    /\ th = NoThreads
    /\ ing = NoIngestion
    /\ sn = NoSensor
    /\ \E kind \in {"weather", "generation"} :
          sv = [table |-> <<>>, kind |-> kind, output_dir |-> <<>>, calls |-> <<>>]

NextMain == MainWeather \/ MainGeneration

SpecMain == InitMain /\ [][NextMain]_vars

(***************************************************************************)
(* C1: for every wind speed w and capacity c > 0, wind_power_curve returns,*)
(* element by element, 0 below 3 m/s, c*((w-3)/9)^3 on [3, 12), c on       *)
(* [12, 25) and 0 from 25 m/s on; 0 at exactly 3, c at exactly 12, 0 at    *)
(* exactly 25; the result has the shape of the input.  At whole m/s the    *)
(* ramp value agrees with the exact c*k^3/729 up to the rounding of the    *)
(* three fixed-point operations (0.4% of the capacity).                    *)
(***************************************************************************)
C1_WindPowerCurvePiecewise ==
    pm.fn = "wind_power_curve" =>
        /\ DOMAIN pm.output = DOMAIN pm.input
        /\ \A i \in DOMAIN pm.input :
              LET w == pm.input[i]
                  c == pm.capacity_mw
                  p == pm.output[i]
                  k == (w - 3 * SCALE) \div SCALE
              IN  /\ w < 3 * SCALE => p = 0
                  /\ (w >= 3 * SCALE /\ w < 12 * SCALE) =>
                        /\ p = FxMul(c, ramp_cube(w))
                        /\ p >= 0 /\ p < c
                        /\ w % SCALE = 0 =>
                              np_abs(p - ((c * k * k * k) \div 729)) * 250 <= c
                  /\ (w >= 12 * SCALE /\ w < 25 * SCALE) => p = c
                  /\ w >= 25 * SCALE => p = 0
                  /\ w = 3 * SCALE => p = 0
                  /\ w = 12 * SCALE => p = c
                  /\ w = 25 * SCALE => p = 0

C1_Witness ==
    /\ pm.fn = "wind_power_curve"
    /\ pm.capacity_mw = 100000
    /\ pm.input = <<6000, 12000>>
    /\ pm.output = <<3600, 100000>>

(***************************************************************************)
(* C2: for every irradiance g (negative and above 1000 included) and       *)
(* capacity c > 0, solar_power_output returns clip(g/1000 * c * 0.85, 0,   *)
(* c): negative g gives 0, g = 1000 gives 0.85*c, and any g with           *)
(* g/1000*0.85 > 1 gives exactly c.                                        *)
(***************************************************************************)
C2_SolarPowerOutputClip ==
    pm.fn = "solar_power_output" =>
        /\ DOMAIN pm.output = DOMAIN pm.input
        /\ \A i \in DOMAIN pm.input :
              LET g == pm.input[i]
                  c == pm.capacity_mw
                  p == pm.output[i]
              IN  /\ p >= 0 /\ p <= c
                  /\ g < 0 => p = 0
                  /\ g = 1000 * SCALE => p = (c * 85) \div 100
                  /\ g * 85 > 100 * 1000 * SCALE => p = c
                  /\ (g % SCALE = 0 /\ c % SCALE = 0) =>
                        p = np_clip(((g \div SCALE) * (c \div SCALE) * 85) \div 100, 0, c)

C2_Witness ==
    /\ pm.fn = "solar_power_output"
    /\ pm.capacity_mw = 40000
    /\ pm.input = <<0 - 100000, 1500000>>
    /\ pm.output = <<0, 40000>>

(***************************************************************************)
(* Shorthands for the claims about the synthesizers                        *)
(***************************************************************************)
WeatherReturned == ret.op = "generate_weather_data" /\ ret.status = "ok"

GenerationReturned == ret.op = "generate_generation_data" /\ ret.status = "ok"

Rows == {ret.rows[i] : i \in DOMAIN ret.rows}

DatesParse == inp.start_date.ok /\ inp.end_date.ok

StartMinute == fromisoformat(inp.start_date)

EndMinute == fromisoformat(inp.end_date)

(***************************************************************************)
(* C3: every generation row, with or without a supplied weather table and  *)
(* whatever its driver values, has gross, net and curtailment >= 0,        *)
(* 85 <= availability_pct <= 100 and gross <= asset_capacity_mw; gross     *)
(* does not exceed the capacity before the availability scaling either.    *)
(***************************************************************************)
C3_GenerationRowBounds ==
    GenerationReturned =>
        /\ \A r \in Rows :
              /\ r.gross_generation_mwh >= 0
              /\ r.net_generation_mwh >= 0
              /\ r.curtailment_mwh >= 0
              /\ r.availability_pct >= 85 * SCALE
              /\ r.availability_pct <= 100 * SCALE
              /\ r.gross_generation_mwh <= r.asset_capacity_mw
        /\ Len(ret.gross_before) = Len(ret.rows)
        /\ \A i \in DOMAIN ret.gross_before :
              /\ ret.gross_before[i].gross_generation >= 0
              /\ ret.gross_before[i].gross_generation <= ret.gross_before[i].asset_capacity

C3_Witness ==
    /\ GenerationReturned
    /\ inp.weather_df.present
    /\ \E r \in Rows :
          /\ r.availability_pct = 100 * SCALE
          /\ r.gross_generation_mwh * 100 >= r.asset_capacity_mw * 99
          /\ r.curtailment_mwh > 0
    /\ \E r \in Rows : r.availability_pct = 85 * SCALE

(***************************************************************************)
(* C4: in every returned generation row net_generation_mwh is at most      *)
(* gross_generation_mwh (both after the availability factor).              *)
(***************************************************************************)
C4_NetAtMostGross ==
    GenerationReturned =>
        \A r \in Rows : r.net_generation_mwh <= r.gross_generation_mwh

C4_Witness ==
    /\ GenerationReturned
    /\ \E r \in Rows :
          /\ r.curtailment_mwh > 0
          /\ r.net_generation_mwh > 0
          /\ r.net_generation_mwh < r.gross_generation_mwh
          /\ r.availability_pct < 100 * SCALE

(***************************************************************************)
(* C5: every weather row has 0 <= wind_speed_mps <= 25,                    *)
(* 0 <= wind_direction_deg < 360, 0 <= ghi <= 1000 and                     *)
(* 20 <= relative_humidity <= 95, for any range, asset count and seed.     *)
(***************************************************************************)
C5_WeatherRowBounds ==
    WeatherReturned =>
        \A r \in Rows :
            /\ r.wind_speed_mps >= 0 /\ r.wind_speed_mps <= 25 * SCALE
            /\ r.wind_direction_deg >= 0 /\ r.wind_direction_deg < 360 * SCALE
            /\ r.ghi >= 0 /\ r.ghi <= 1000 * SCALE
            /\ r.relative_humidity >= 20 * SCALE /\ r.relative_humidity <= 95 * SCALE

C5_Witness ==
    /\ WeatherReturned
    /\ \E r \in Rows : r.wind_speed_mps = 25 * SCALE /\ r.relative_humidity = 20 * SCALE
    /\ \E r \in Rows : r.wind_speed_mps = 0 /\ r.ghi > 0 /\ r.relative_humidity = 95 * SCALE

(***************************************************************************)
(* C6: for a range with start <= end, generate_weather_data returns        *)
(* exactly one row for every (timestamp, asset_id) pair of the time grid   *)
(* and the asset list and no other row: hours * asset_count rows,          *)
(* asset_count distinct asset ids "ASSET_" + the 1-based index padded with *)
(* zeros to 3 digits, and the columns of the Weather Record.               *)
(***************************************************************************)
ExpectedGrid ==
    IF EndMinute < StartMinute THEN {}
    ELSE {StartMinute + 60 * k : k \in 0 .. ((EndMinute - StartMinute) \div 60)}

ExpectedAssetIds ==
    {<<65, 83, 83, 69, 84, 95,
       48 + ((j \div 100) % 10), 48 + ((j \div 10) % 10), 48 + (j % 10)>> :
        j \in 1 .. inp.asset_count}

RecordColumns ==
    {"timestamp", "asset_id", "wind_speed_mps", "wind_direction_deg", "ghi",
     "temperature_c", "pressure_hpa", "relative_humidity"}

C6_WeatherCrossProduct ==
    (WeatherReturned /\ StartMinute <= EndMinute /\ inp.asset_count >= 0) =>
        /\ Len(ret.rows) = Cardinality(ExpectedGrid) * inp.asset_count
        /\ {r.asset_id : r \in Rows} = ExpectedAssetIds
        /\ Cardinality({r.asset_id : r \in Rows}) = inp.asset_count
        /\ \A r \in Rows : r.timestamp \in ExpectedGrid
        /\ \A t \in ExpectedGrid, a \in ExpectedAssetIds :
              Cardinality({i \in DOMAIN ret.rows :
                              ret.rows[i].timestamp = t /\ ret.rows[i].asset_id = a}) = 1
        /\ {ret.columns[i] : i \in DOMAIN ret.columns} = RecordColumns
        /\ Len(ret.columns) = Cardinality(RecordColumns)
        /\ \A r \in Rows : DOMAIN r = RecordColumns

C6_Witness ==
    /\ WeatherReturned
    /\ inp.asset_count = 3
    /\ StartMinute = 0 /\ EndMinute = 180
    /\ Len(ret.rows) = 12

(***************************************************************************)
(* C7: for start <= end the time grid of both synthesizers is start,       *)
(* start + 1h, ... up to the last value not after end: strictly            *)
(* increasing without gaps, first element start, and it contains end       *)
(* exactly when end - start is a whole number of hours.                    *)
(***************************************************************************)
C7_TimeGrid ==
    ((WeatherReturned \/ GenerationReturned) /\ StartMinute <= EndMinute) =>
        LET grid == ret.timestamps
        IN  /\ Len(grid) >= 1
            /\ grid[1] = StartMinute
            /\ \A k \in 1 .. (Len(grid) - 1) : grid[k + 1] = grid[k] + 60
            /\ grid[Len(grid)] <= EndMinute
            /\ grid[Len(grid)] + 60 > EndMinute
            /\ (\E k \in DOMAIN grid : grid[k] = EndMinute)
                  <=> ((EndMinute - StartMinute) % 60 = 0)
            /\ \A r \in Rows : \E k \in DOMAIN grid : grid[k] = r.timestamp
            /\ (ret.rows # <<>>) =>
                  \A k \in DOMAIN grid : \E r \in Rows : r.timestamp = grid[k]

C7_Witness ==
    /\ GenerationReturned
    /\ StartMinute = 30 /\ EndMinute = 150
    /\ ret.timestamps = <<30, 90, 150>>
    /\ ret.rows # <<>>

C7_WitnessUnaligned ==
    /\ WeatherReturned
    /\ StartMinute = 0 /\ EndMinute = 90
    /\ ret.timestamps = <<0, 60>>

(***************************************************************************)
(* C8: two calls of generate_weather_data (of generate_generation_data)    *)
(* with identical arguments and seed return identical tables, whatever     *)
(* draws and synthesizer calls were made before each: every call returns   *)
(* what the first call of that synthesizer returned.                       *)
(***************************************************************************)
C8_Deterministic ==
    /\ ret.op = "generate_weather_data" => seen.generate_weather_data = <<Result(ret)>>
    /\ ret.op = "generate_generation_data" =>
          seen.generate_generation_data = <<Result(ret)>>

C8_Witness ==
    /\ ret.op = "generate_weather_data"
    /\ ret.nth = 2
    /\ seen.generate_generation_data # <<>>
    /\ Len(ret.rows) >= 2
    /\ inp.random_seed # InitialState.seed

(***************************************************************************)
(* C9 (as claimed): a call of generate_weather_data with asset_count <= 0  *)
(* fails with an error before any computation proceeds and returns no      *)
(* table.                                                                  *)
(***************************************************************************)
C9_NonPositiveAssetCountRejected ==
    (ret.op = "generate_weather_data" /\ inp.asset_count <= 0) =>
        /\ ret.status = "raise"
        /\ ret.draws = <<>>

(***************************************************************************)
(* C10 (as claimed): a call of either synthesizer whose end date is before *)
(* its start date fails with an error before any computation proceeds; it  *)
(* does not return an empty table.                                         *)
(***************************************************************************)
C10_EndBeforeStartRejected ==
    (ret.op # "none" /\ DatesParse /\ EndMinute < StartMinute) =>
        /\ ret.status = "raise"
        /\ ret.draws = <<>>

(***************************************************************************)
(* C11 (as claimed): a call of either synthesizer with a start or end date *)
(* that cannot be parsed raises, returns no table, and has no effect: no   *)
(* value is drawn and the generator is in the state it was in before the   *)
(* call (it has not been reseeded).                                        *)
(***************************************************************************)
C11_UnparseableDateRejectedFirst ==
    [][((GenerateWeather \/ GenerateGeneration) /\ ~DatesParse) =>
          /\ ret'.status = "raise"
          /\ ret'.rows = <<>>
          /\ ret'.draws = <<>>
          /\ rng' = rng]_vars

(***************************************************************************)
(* Shorthands for the claims about a supplied weather table                *)
(***************************************************************************)
ConfigIds == [j \in 1 .. Len(inp.asset_configs) |-> inp.asset_configs[j].asset_id]

\* the (timestamp, asset_id) pairs of time grid x asset_configs keys
GridPairs ==
    IF DatesParse THEN cross_join(datetime_range(StartMinute, EndMinute), ConfigIds)
    ELSE <<>>

WeatherRowsOf(b) ==
    {j \in 1 .. Len(inp.weather_df.rows) :
        /\ inp.weather_df.rows[j].timestamp = b.timestamp
        /\ inp.weather_df.rows[j].asset_id = b.asset_id}

Missing(b) == WeatherRowsOf(b) = {}

UniqueWeatherKeys ==
    \A j, k \in 1 .. Len(inp.weather_df.rows) :
        (/\ inp.weather_df.rows[j].timestamp = inp.weather_df.rows[k].timestamp
         /\ inp.weather_df.rows[j].asset_id = inp.weather_df.rows[k].asset_id) => j = k

FillerRow(b) ==
    [timestamp |-> b.timestamp, asset_id |-> b.asset_id,
     wind_speed_mps |-> <<6000>>, ghi |-> <<500000>>]

\* the supplied table with a row added for every pair that has none
CompletedWeather ==
    LET missing == SelectSeq(GridPairs, Missing)
    IN  [present |-> TRUE,
         rows |-> inp.weather_df.rows \o [i \in 1 .. Len(missing) |-> FillerRow(missing[i])]]

RowsWithCompletedWeather ==
    LET r == generate_generation_data(inp.start_date, inp.end_date, inp.asset_configs,
                                      CompletedWeather, inp.random_seed, InitialState)
    IN  {r.rows[i] : i \in DOMAIN r.rows}

RowsOf(b) == {r \in Rows : r.timestamp = b.timestamp /\ r.asset_id = b.asset_id}

(***************************************************************************)
(* C12: when the weather table given to generate_generation_data (at most  *)
(* one row per key) has no row for a pair of the grid, the call returns    *)
(* without error, the row of that pair has gross, net and curtailment 0,   *)
(* and every row whose pair has a weather row is the row the call returns  *)
(* when the table is completed with rows for the missing pairs.            *)
(***************************************************************************)
C12_MissingWeatherRowsAreZero ==
    (ret.op = "generate_generation_data" /\ DatesParse /\ inp.weather_df.present
        /\ UniqueWeatherKeys) =>
        LET pairs == GridPairs
            completed == RowsWithCompletedWeather
        IN  /\ ret.status = "ok"
            /\ \A i \in DOMAIN pairs :
                  /\ RowsOf(pairs[i]) # {}
                  /\ \A r \in RowsOf(pairs[i]) :
                        IF Missing(pairs[i])
                        THEN /\ r.gross_generation_mwh = 0
                             /\ r.net_generation_mwh = 0
                             /\ r.curtailment_mwh = 0
                        ELSE r \in completed

C12_Witness ==
    /\ GenerationReturned
    /\ inp.weather_df.present
    /\ UniqueWeatherKeys
    /\ \E i, j \in DOMAIN GridPairs :
          /\ Missing(GridPairs[i])
          /\ \E r \in RowsOf(GridPairs[i]) : r.gross_generation_mwh = 0
          /\ ~Missing(GridPairs[j])
          /\ \E r \in RowsOf(GridPairs[j]) : r.gross_generation_mwh > 0

(***************************************************************************)
(* C13 (as claimed): for any asset_configs and any supplied weather table, *)
(* with missing rows, rows of unknown assets or several rows of one key,   *)
(* generate_generation_data returns exactly one row for every pair of time *)
(* grid x asset_configs keys.                                              *)
(***************************************************************************)
C13_OneRowPerGridPair ==
    (ret.op = "generate_generation_data" /\ DatesParse) =>
        /\ ret.status = "ok"
        /\ Len(ret.rows) = Len(GridPairs)
        /\ \A i \in DOMAIN GridPairs : Cardinality(RowsOf(GridPairs[i])) = 1

(***************************************************************************)
(* C18 (as claimed): synthesizer calls running in parallel do not          *)
(* interfere: under every interleaving of their steps, the table a call    *)
(* returns is the table the same call returns when it runs alone.          *)
(***************************************************************************)
C18_ParallelCallsIndependent ==
    \A t \in DOMAIN th :
        th[t].status # "running" =>
            LET alone == generate_generation_data(inp.start_date, inp.end_date,
                                                  inp.asset_configs, inp.weather_df,
                                                  th[t].random_seed, InitialState)
            IN  th[t].status = alone.status /\ th[t].rows = alone.rows

(***************************************************************************)
(* C19: the table either synthesizer returns is in ascending order of      *)
(* (timestamp, asset_id), whatever the order of the keys of asset_configs, *)
(* and holds exactly the rows computed before the sort: each row keeps the *)
(* values computed for its own (timestamp, asset_id).                      *)
(***************************************************************************)
LexLess(a, b) ==
    \/ \E k \in 1 .. Len(a) :
          /\ k <= Len(b)
          /\ a[k] < b[k]
          /\ \A j \in 1 .. (k - 1) : a[j] = b[j]
    \/ Len(a) < Len(b) /\ \A j \in 1 .. Len(a) : a[j] = b[j]

C19_SortedWholeRows ==
    (ret.op # "none" /\ ret.status = "ok") =>
        /\ \A i \in 1 .. (Len(ret.rows) - 1) :
              \/ ret.rows[i].timestamp < ret.rows[i + 1].timestamp
              \/ /\ ret.rows[i].timestamp = ret.rows[i + 1].timestamp
                 /\ LexLess(ret.rows[i].asset_id, ret.rows[i + 1].asset_id)
        /\ Len(ret.rows) = Len(ret.unsorted)
        /\ \A i \in DOMAIN ret.unsorted : ret.unsorted[i] \in Rows

C19_Witness ==
    /\ GenerationReturned
    /\ Len(ret.rows) >= 4
    /\ ret.rows # ret.unsorted
    /\ \E i, j \in DOMAIN ret.rows :
          ret.rows[i].gross_generation_mwh # ret.rows[j].gross_generation_mwh

(***************************************************************************)
(* C20: generate_generation_data draws its stochastic layers, after the    *)
(* draws of the synthetic weather if any, as five batches of n_rows values *)
(* each, in the order performance factor, loss factor, curtailment         *)
(* probability draw, curtailment magnitude, availability noise: row i of   *)
(* the table (before the sort) is computed from the i-th value of each     *)
(* batch, and the magnitude batch has n_rows values whether or not a row   *)
(* is curtailed.                                                           *)
(***************************************************************************)
Seeded == [seed |-> inp.random_seed, pos |-> 0]

\* the drivers the join gives the row with the key of b
JoinedDrivers(b) ==
    IF Missing(b) THEN [wind_speed_mps |-> <<>>, ghi |-> <<>>]
    ELSE inp.weather_df.rows[CHOOSE j \in WeatherRowsOf(b) : TRUE]

C20_GenerationDrawOrder ==
    GenerationReturned =>
        LET n == Len(ret.unsorted)
            base == IF inp.weather_df.present THEN 0 ELSE 2 * n
            At(layer, i) == advance(Seeded, base + layer * n + i - 1)
            performance_factor(i) ==
                np_random_uniform(At(0, i), (95 * SCALE) \div 100, Fx(1), 1)[1]
            loss_factor(i) ==
                np_random_uniform(At(1, i), (90 * SCALE) \div 100, (95 * SCALE) \div 100, 1)[1]
            mask_draw(i) == np_random_uniform(At(2, i), 0, Fx(1), 1)[1]
            fraction(i) ==
                np_random_uniform(At(3, i), (5 * SCALE) \div 100, (15 * SCALE) \div 100, 1)[1]
            availability(i) == availability_of(np_random_normal(At(4, i), 0, Fx(5), 1)[1])
            gross(i) == ret.gross_before[i].gross_generation
            capacity(i) == ret.gross_before[i].asset_capacity
            curtailment(i) ==
                curtailment_of(
                    curtailment_mask_of(mask_draw(i),
                                        curtailment_probability_of(gross(i), capacity(i))),
                    fraction(i), gross(i))
        IN  /\ Len(ret.draws) >= 5
            /\ SubSeq(ret.draws, Len(ret.draws) - 4, Len(ret.draws)) =
                  <<Batch("performance_factor", n), Batch("loss_factor", n),
                    Batch("curtailment_mask", n), Batch("curtailment_fraction", n),
                    Batch("availability_variation", n)>>
            /\ \A i \in 1 .. n :
                  /\ (inp.weather_df.present /\ UniqueWeatherKeys) =>
                        gross(i) =
                            apply_performance(
                                row_gross_generation(
                                    config_of(inp.asset_configs, ret.unsorted[i].asset_id),
                                    JoinedDrivers(ret.unsorted[i]).wind_speed_mps,
                                    JoinedDrivers(ret.unsorted[i]).ghi),
                                performance_factor(i))
                  /\ ret.unsorted[i].curtailment_mwh = curtailment(i)
                  /\ ret.unsorted[i].availability_pct = availability(i)
                  /\ ret.unsorted[i].net_generation_mwh =
                        scale_net(
                            net_minus_curtailment(apply_loss(gross(i), loss_factor(i)),
                                                  curtailment(i)),
                            availability_factor_of(availability(i)))

C20_Witness ==
    /\ GenerationReturned
    /\ Len(ret.unsorted) >= 2
    /\ \E i, j \in DOMAIN ret.unsorted :
          /\ ret.unsorted[i].curtailment_mwh > 0
          /\ ret.unsorted[j].curtailment_mwh = 0
          /\ ret.gross_before[j].gross_generation > 0

(***************************************************************************)
(* Shorthands for the claims about the writer                              *)
(***************************************************************************)
LastSave == sv.calls[Len(sv.calls)]

PreviousSave == sv.calls[Len(sv.calls) - 1]

TableDates == {(sv.table[i].timestamp \div (24 * 60)) + 1 : i \in DOMAIN sv.table}

\* the rows of the table whose timestamp falls on date d, in table order
RowsOn(d) ==
    LET falls_on(r) == (r.timestamp \div (24 * 60)) + 1 = d
    IN  SelectSeq(sv.table, falls_on)

\* the ISO form of the dates of the tables
ExpectedIsoDate(d) ==
    CASE d = 1 -> <<50, 48, 50, 51, 45, 48, 49, 45, 48, 49>>
      [] d = 2 -> <<50, 48, 50, 51, 45, 48, 49, 45, 48, 50>>
      [] d = 3 -> <<50, 48, 50, 51, 45, 48, 49, 45, 48, 51>>
      [] d = 4 -> <<50, 48, 50, 51, 45, 48, 49, 45, 48, 52>>
      [] d = 59 -> <<50, 48, 50, 51, 45, 48, 50, 45, 50, 56>>
      [] d = 60 -> <<50, 48, 50, 51, 45, 48, 51, 45, 48, 49>>
      [] d = 61 -> <<50, 48, 50, 51, 45, 48, 51, 45, 48, 50>>
      [] d = 62 -> <<50, 48, 50, 51, 45, 48, 51, 45, 48, 51>>
      [] d = 80 -> <<50, 48, 50, 51, 45, 48, 51, 45, 50, 49>>

ExpectedPrefix == IF sv.kind = "weather" THEN WEATHER_PREFIX ELSE GENERATION_PREFIX

\* weather_<d>.parquet or generation_<d>.parquet in the output directory
ExpectedPartitionPath(d) ==
    <<sv.output_dir,
      ExpectedPrefix \o ExpectedIsoDate(d) \o <<46, 112, 97, 114, 113, 117, 101, 116>>>>

\* weather_all.parquet or generation_all.parquet in the output directory
ExpectedAllPath ==
    <<sv.output_dir,
      ExpectedPrefix \o <<97, 108, 108>> \o <<46, 112, 97, 114, 113, 117, 101, 116>>>>

Written(call) == {call.written[i] : i \in DOMAIN call.written}

(***************************************************************************)
(* C14: a partitioned save that succeeds writes, for every distinct date d *)
(* of the table, exactly one file weather_<d>.parquet or                   *)
(* generation_<d>.parquet (d in ISO form) holding exactly the rows of d;   *)
(* it writes no other file, and every row of the table is in exactly one   *)
(* of the files written.                                                   *)
(***************************************************************************)
C14_OneFilePerDate ==
    (sv.calls # <<>> /\ LastSave.partition_by_date /\ LastSave.status = "ok") =>
        /\ Written(LastSave) = {ExpectedPartitionPath(d) : d \in TableDates}
        /\ Len(LastSave.written) = Cardinality(TableDates)
        /\ \A d \in TableDates :
              fs.files[ExpectedPartitionPath(d)] = [rows |-> RowsOn(d), footer |-> TRUE]
        /\ \A i \in DOMAIN sv.table :
              Cardinality({q \in Written(LastSave) :
                              \E j \in DOMAIN fs.files[q].rows :
                                  fs.files[q].rows[j] = sv.table[i]}) = 1

C14_Witness ==
    /\ sv.calls # <<>>
    /\ LastSave.partition_by_date
    /\ LastSave.status = "ok"
    /\ Cardinality(TableDates) >= 2
    /\ \E d \in TableDates : Len(RowsOn(d)) >= 2 /\ Len(RowsOn(d)) < Len(sv.table)

(***************************************************************************)
(* C15: after two partitioned saves of one table to one directory the file *)
(* system is what it was after the first of them: the same files with the  *)
(* same content, and (the directory holding no file before) as many files  *)
(* as the table has distinct dates.                                        *)
(***************************************************************************)
C15_SaveTwiceIdempotent ==
    (/\ Len(sv.calls) >= 2
     /\ LastSave.partition_by_date /\ LastSave.status = "ok"
     /\ PreviousSave.partition_by_date /\ PreviousSave.status = "ok") =>
        /\ LastSave.after = PreviousSave.after
        /\ DOMAIN PreviousSave.before.files = {} =>
              Cardinality(DOMAIN fs.files) = Cardinality(TableDates)

C15_Witness ==
    /\ Len(sv.calls) >= 2
    /\ LastSave.partition_by_date /\ LastSave.status = "ok"
    /\ PreviousSave.partition_by_date /\ PreviousSave.status = "ok"
    /\ DOMAIN PreviousSave.before.files = {}
    /\ Cardinality(DOMAIN fs.files) = 2
    /\ \E q \in DOMAIN fs.files : Len(fs.files[q].rows) >= 2

(***************************************************************************)
(* C16: a save with partition_by_date = false that succeeds writes exactly *)
(* one file, weather_all.parquet or generation_all.parquet, holding all    *)
(* rows of the table, and touches no other file; after a save in either    *)
(* mode the output directory and all its parents exist.                    *)
(***************************************************************************)
C16_SingleFileAndDirectory ==
    sv.calls # <<>> =>
        /\ \A k \in 0 .. Len(sv.output_dir) : SubSeq(sv.output_dir, 1, k) \in fs.dirs
        /\ (~LastSave.partition_by_date /\ LastSave.status = "ok") =>
              /\ LastSave.written = <<ExpectedAllPath>>
              /\ fs.files[ExpectedAllPath] = [rows |-> sv.table, footer |-> TRUE]
              /\ DOMAIN fs.files = DOMAIN LastSave.before.files \cup {ExpectedAllPath}
              /\ \A q \in DOMAIN LastSave.before.files :
                    q # ExpectedAllPath => fs.files[q] = LastSave.before.files[q]

C16_Witness ==
    /\ Len(sv.calls) = 1
    /\ ~LastSave.partition_by_date
    /\ LastSave.status = "ok"
    /\ Len(sv.output_dir) >= 3
    /\ LastSave.before.dirs = {<<>>}
    /\ Cardinality(TableDates) >= 2

RECURSIVE SizesBefore(_, _)
\* the number of values drawn by the batches before the k-th of draws
SizesBefore(draws, k) == IF k <= 1 THEN 0 ELSE SizesBefore(draws, k - 1) + draws[k - 1].size

\* the place in ret.draws of the batch called name
BatchAt(name) == CHOOSE k \in DOMAIN ret.draws : ret.draws[k].name = name

\* the generator as it stands when row i of the batch called name is drawn
DrawnAt(name, i) == advance(Seeded, SizesBefore(ret.draws, BatchAt(name)) + i - 1)

HourOf(r) == (r.timestamp \div 60) % 24

DayOfYearOf(r) == (r.timestamp \div (24 * 60)) + 1

(***************************************************************************)
(* C21: the whole-vector draws of generate_weather_data are made from the  *)
(* one generator in the order wind noise, direction noise, cloud factor,   *)
(* temperature noise, pressure noise, humidity noise, each of exactly      *)
(* n_rows values: row i of the table (before the sort) is computed from    *)
(* the i-th value of each batch.                                           *)
(***************************************************************************)
C21_WeatherDrawOrder ==
    WeatherReturned =>
        LET n == Len(ret.unsorted)
            is_vector(b) == b.name # "asset_base_direction"
            row(i) == ret.unsorted[i]
            wind_noise(i) == np_random_normal(DrawnAt("wind_noise", i), 0, Fx(2), 1)[1]
            cloud_factor(i) ==
                np_random_uniform(DrawnAt("cloud_factor", i), (7 * SCALE) \div 10, Fx(1), 1)[1]
            temp_noise(i) == np_random_normal(DrawnAt("temp_noise", i), 0, Fx(2), 1)[1]
            pressure_noise(i) == np_random_normal(DrawnAt("pressure_noise", i), 0, Fx(5), 1)[1]
            humidity_noise(i) == np_random_normal(DrawnAt("humidity_noise", i), 0, Fx(10), 1)[1]
        IN  /\ SelectSeq(ret.draws, is_vector) =
                  <<Batch("wind_noise", n), Batch("direction_change", n),
                    Batch("cloud_factor", n), Batch("temp_noise", n),
                    Batch("pressure_noise", n), Batch("humidity_noise", n)>>
            /\ \A i \in 1 .. n :
                  /\ row(i).wind_speed_mps =
                        wind_speed_of(seasonal_wind_of(DayOfYearOf(row(i))),
                                      diurnal_wind_of(HourOf(row(i))), wind_noise(i))
                  /\ row(i).ghi =
                        ghi_of(ghi_pattern_of(HourOf(row(i)), DayOfYearOf(row(i))),
                               cloud_factor(i))
                  /\ row(i).temperature_c =
                        temperature_of(HourOf(row(i)), DayOfYearOf(row(i)), temp_noise(i))
                  /\ row(i).pressure_hpa = pressure_of(DayOfYearOf(row(i)), pressure_noise(i))
                  /\ row(i).relative_humidity =
                        relative_humidity_of(row(i).temperature_c, row(i).ghi,
                                             humidity_noise(i))

C21_Witness ==
    /\ WeatherReturned
    /\ Len(ret.unsorted) = 2
    /\ inp.asset_count = 1
    /\ ret.unsorted[1].temperature_c > ret.unsorted[2].temperature_c
    /\ ret.unsorted[1].pressure_hpa < ret.unsorted[2].pressure_hpa
    /\ ret.unsorted[1].ghi # ret.unsorted[2].ghi

(***************************************************************************)
(* C22 (as claimed): each asset gets exactly one base-bearing draw per     *)
(* call, these asset_count draws are the first values the call draws, and  *)
(* every row of an asset uses that asset's bearing.                        *)
(***************************************************************************)
BearingOf(j) == np_random_uniform(DrawnAt("asset_base_direction", j), 0, Fx(360), 1)[1]

DirectionChange(i) == np_random_normal(DrawnAt("direction_change", i), 0, Fx(20), 1)[1]

\* one batch of asset_count bearings, and every row uses the bearing of its asset
OneBearingPerAsset ==
    /\ Cardinality({k \in DOMAIN ret.draws : ret.draws[k].name = "asset_base_direction"}) = 1
    /\ ret.draws[BatchAt("asset_base_direction")].size = inp.asset_count
    /\ \A i \in DOMAIN ret.unsorted :
          \E j \in 1 .. inp.asset_count :
              /\ ret.unsorted[i].asset_id = ASSET_PREFIX \o zfill(str_int(j), 3)
              /\ ret.unsorted[i].wind_direction_deg =
                    (BearingOf(j) + DirectionChange(i)) % (360 * SCALE)

C22_BearingsDrawnFirst ==
    (WeatherReturned /\ inp.asset_count >= 1) =>
        /\ OneBearingPerAsset
        /\ SizesBefore(ret.draws, BatchAt("asset_base_direction")) = 0

(***************************************************************************)
(* C22 (amended): each asset gets exactly one base-bearing draw per call;  *)
(* these asset_count draws are made in one batch right after the n_rows    *)
(* values of the wind noise and right before the direction noise, and      *)
(* every row of an asset uses that asset's bearing.                        *)
(***************************************************************************)
C22_BearingsDrawnAfterWindNoise ==
    (WeatherReturned /\ inp.asset_count >= 1) =>
        /\ OneBearingPerAsset
        /\ BatchAt("asset_base_direction") = 2
        /\ ret.draws[1] = Batch("wind_noise", Len(ret.unsorted))
        /\ ret.draws[3].name = "direction_change"
        /\ SizesBefore(ret.draws, BatchAt("asset_base_direction")) = Len(ret.unsorted)

C22_Witness ==
    /\ WeatherReturned
    /\ inp.asset_count = 2
    /\ Len(ret.unsorted) = 2
    /\ BearingOf(1) # BearingOf(2)
    /\ ret.unsorted[1].wind_direction_deg # ret.unsorted[2].wind_direction_deg

(***************************************************************************)
(* C23: with h the hour of day of a weather row, ghi is exactly 0 when     *)
(* |h - 12| >= 6 (hours 0 to 6 and 18 to 23) and strictly positive when    *)
(* |h - 12| < 6 (hours 7 to 17), for every day of the year and every cloud *)
(* factor in [0.7, 1.0].                                                   *)
(***************************************************************************)
C23_GhiByHour ==
    pm.fn = "ghi" =>
        LET h == pm.input[1]
            ghi == pm.output[1]
        IN  /\ (h <= 6 \/ h >= 18) => ghi = 0
            /\ (h >= 7 /\ h <= 17) => ghi > 0

C23_Witness ==
    /\ pm.fn = "ghi"
    /\ pm.input = <<17, 354, 700>>
    /\ pm.output[1] > 300 * SCALE
    /\ pm.output[1] < 400 * SCALE

(***************************************************************************)
(* C24: run_full_ingestion calls ensure_directories, then                  *)
(* run_weather_ingestion with weather_files, then run_generation_ingestion *)
(* with generation_files, each once and in that order; when one of them    *)
(* raises, no later one is called and the exception reaches the caller;    *)
(* it returns only after all three.                                        *)
(***************************************************************************)
ExpectedCalls ==
    <<[fn |-> "ensure_directories", file_paths |-> [given |-> FALSE, paths |-> <<>>]],
      [fn |-> "run_weather_ingestion", file_paths |-> ing.weather_files],
      [fn |-> "run_generation_ingestion", file_paths |-> ing.generation_files]>>

C24_FullIngestionOrder ==
    LET n == Len(ing.calls)
    IN  /\ n <= 3
        /\ \A k \in 1 .. n :
              /\ ing.calls[k].fn = ExpectedCalls[k].fn
              /\ ing.calls[k].file_paths = ExpectedCalls[k].file_paths
        /\ \A k \in 1 .. (n - 1) : ing.calls[k].raised = <<>>
        /\ ing.pc = "returned" => (n = 3 /\ ing.calls[3].raised = <<>> /\ ing.raised = <<>>)
        /\ ing.pc = "raised" =>
              (n >= 1 /\ ing.calls[n].raised # <<>> /\ ing.raised = ing.calls[n].raised)
        /\ (n >= 1 /\ ing.calls[n].raised # <<>>) => ing.pc = "raised"
        /\ ing.pc \in {"idle", "ensure_directories"} => n = 0
        /\ ing.pc = "run_weather_ingestion" => n = 1
        /\ ing.pc = "run_generation_ingestion" => n = 2

C24_Witness ==
    /\ ing.pc = "raised"
    /\ Len(ing.calls) = 2
    /\ ing.calls[2].fn = "run_weather_ingestion"
    /\ ing.calls[2].outcome.at = "pipeline.run"
    /\ ing.raised = <<"PipelineStepFailed">>
    /\ ing.weather_files.given

(***************************************************************************)
(* C25: when pipeline.run returns load info whose has_failed_jobs is true, *)
(* run_weather_ingestion and run_generation_ingestion log an error for the *)
(* failures and one for every failed job, and return without raising; an   *)
(* exception raised by the pipeline run is logged as an error and raised   *)
(* again.                                                                  *)
(***************************************************************************)
IngestionCalls ==
    {k \in DOMAIN ing.calls :
        ing.calls[k].fn \in {"run_weather_ingestion", "run_generation_ingestion"}}

Logged(call, level, message) ==
    {i \in DOMAIN call.log : call.log[i].level = level /\ call.log[i].message = message}

C25_FailedJobsLoggedNotRaised ==
    \A k \in IngestionCalls :
        LET call == ing.calls[k]
            packages == call.outcome.load_info.load_packages
        IN  /\ (call.outcome.exception = <<>> /\ call.outcome.load_info.has_failed_jobs) =>
                  /\ call.raised = <<>>
                  /\ Logged(call, "error", "ingestion had failures") # {}
                  /\ \A p \in DOMAIN packages : \A j \in DOMAIN packages[p] :
                        \E i \in Logged(call, "error", "Failed job") :
                            call.log[i].detail = packages[p][j]
            /\ (call.outcome.exception # <<>> /\ call.outcome.at = "pipeline.run") =>
                  /\ call.raised = call.outcome.exception
                  /\ Logged(call, "error", "ingestion failed") # {}
                  /\ \A i \in Logged(call, "error", "ingestion failed") :
                        call.log[i].detail.exc = call.outcome.exception[1]

C25_Witness ==
    /\ Len(ing.calls) = 3
    /\ ing.calls[2].outcome.load_info.has_failed_jobs
    /\ Len(ing.calls[2].outcome.load_info.load_packages) = 2
    /\ Cardinality(Logged(ing.calls[2], "error", "Failed job")) = 2
    /\ ing.calls[2].raised = <<>>
    /\ ing.calls[3].outcome.at = "pipeline.run"
    /\ ing.calls[3].raised = <<"OSError">>

(***************************************************************************)
(* Shorthands for the claims about the sensor                              *)
(***************************************************************************)
LastEvaluation == sn.last[1]

\* the number a cursor stands for
CursorValue(cursor) ==
    IF cursor = <<>> THEN 0
    ELSE IF Len(cursor) = 1 THEN cursor[1] - 48
    ELSE (cursor[1] - 48) * 10 + (cursor[2] - 48)

\* the weather_*.parquet and generation_*.parquet files now in the raw directories
DataFilesNow ==
    {p \in DOMAIN fs.files :
        \/ p[1] = <<"data", "raw", "weather">>
              /\ SubSeq(p[2], 1, 8) = <<119, 101, 97, 116, 104, 101, 114, 95>>
        \/ p[1] = <<"data", "raw", "generation">>
              /\ SubSeq(p[2], 1, 11) = <<103, 101, 110, 101, 114, 97, 116, 105, 111, 110, 95>>}

(***************************************************************************)
(* C26 (as claimed): an evaluation of new_data_file_sensor returns a       *)
(* RunRequest if and only if a weather_*.parquet or generation_*.parquet   *)
(* file is in the raw directories that was not there at the previous       *)
(* evaluation (at the first evaluation: if there is such a file), whatever *)
(* files were added, overwritten or deleted in between.                    *)
(***************************************************************************)
C26_RunRequestIffNewFile ==
    sn.last # <<>> =>
        (LastEvaluation.run_request # <<>>
            <=> (LastEvaluation.files \ LastEvaluation.previous) # {})

(***************************************************************************)
(* C29: the number the sensor cursor holds never decreases; the cursor     *)
(* changes only in an evaluation that returns a RunRequest; and no two     *)
(* RunRequests carry the same run_key.                                     *)
(***************************************************************************)
C29_CursorMonotonicKeysUnique ==
    [][/\ CursorValue(sn'.cursor) >= CursorValue(sn.cursor)
       /\ sn'.cursor # sn.cursor =>
             (EvaluateSensor /\ sn'.last[1].run_request # <<>>)
       /\ \A i, j \in DOMAIN sn'.run_keys : sn'.run_keys[i] = sn'.run_keys[j] => i = j]_vars

C29_Witness ==
    /\ Len(sn.run_keys) >= 2
    /\ sn.last # <<>>
    /\ LastEvaluation.run_request = <<>>
    /\ LastEvaluation.files # LastEvaluation.previous
    /\ Cardinality(DataFilesNow) < CursorValue(sn.cursor)

(***************************************************************************)
(* C27: in every row generate_generation_data returns,                     *)
(* net_generation_mwh + curtailment_mwh <= gross_generation_mwh, although  *)
(* curtailment_mwh is reported unscaled while gross and net are multiplied *)
(* by the availability factor; and curtailment_mwh > 0 only in rows with   *)
(* gross_generation_mwh > 0.                                               *)
(***************************************************************************)
C27_NetPlusCurtailmentAtMostGross ==
    GenerationReturned =>
        \A r \in Rows :
            /\ r.net_generation_mwh + r.curtailment_mwh <= r.gross_generation_mwh
            /\ r.curtailment_mwh > 0 => r.gross_generation_mwh > 0

C27_Witness ==
    /\ GenerationReturned
    /\ \E r \in Rows :
          /\ r.curtailment_mwh * 100 >= r.gross_generation_mwh * 17
          /\ r.availability_pct = 85 * SCALE
          /\ r.net_generation_mwh * 100 >= r.gross_generation_mwh * 75
          /\ r.gross_generation_mwh > 0

(***************************************************************************)
(* C28: a partitioned save creates or overwrites only the files named for  *)
(* the dates of the table it saves; every other file that was in the       *)
(* output directory (the partitions of other dates, the _all file) is      *)
(* still there with the content it had, so the partitions an earlier save  *)
(* wrote for dates the table no longer covers remain.                      *)
(***************************************************************************)
C28_PartitionedSaveFrame ==
    (sv.calls # <<>> /\ LastSave.partition_by_date) =>
        LET named == {ExpectedPartitionPath(d) : d \in TableDates}
            before == LastSave.before.files
        IN  /\ Written(LastSave) \subseteq named
            /\ DOMAIN fs.files \subseteq (DOMAIN before \cup named)
            /\ \A q \in DOMAIN before :
                  q \notin named => (q \in DOMAIN fs.files /\ fs.files[q] = before[q])
            /\ LastSave.status = "ok" =>
                  \A q \in named : fs.files[q].footer /\ q \in Written(LastSave)

C28_Witness ==
    /\ Len(sv.calls) = 1
    /\ LastSave.partition_by_date
    /\ LastSave.status = "ok"
    /\ TableDates = {2}
    /\ ExpectedPartitionPath(1) \in DOMAIN fs.files
    /\ fs.files[ExpectedPartitionPath(1)] = LastSave.before.files[ExpectedPartitionPath(1)]
    /\ Len(fs.files[ExpectedPartitionPath(1)].rows) >= 2
    /\ fs.files[ExpectedPartitionPath(2)] # LastSave.before.files[ExpectedPartitionPath(2)]
    /\ fs.files[ExpectedAllPath] = LastSave.before.files[ExpectedAllPath]

(***************************************************************************)
(* C30: when start_date and end_date are date-only strings D >= 0 days     *)
(* apart, the grid of either synthesizer has exactly 24*D + 1 timestamps,  *)
(* 24 hourly ones on every date before end_date and only midnight on       *)
(* end_date; the table has (24*D + 1) * asset_count rows, and a            *)
(* partitioned save of it writes D + 1 files of which the last, the one of *)
(* end_date, holds exactly asset_count rows.                               *)
(***************************************************************************)
DaysApart == inp.end_date.doy - inp.start_date.doy

AssetCount ==
    IF sv.kind = "weather" THEN inp.asset_count ELSE Len(inp.asset_configs)

TimestampsOn(d) == {i \in DOMAIN ret.timestamps : (ret.timestamps[i] \div (24 * 60)) + 1 = d}

C30_DateOnlyGrid ==
    (sv.calls # <<>> /\ inp.start_date.date_only /\ inp.end_date.date_only
        /\ DaysApart >= 0) =>
        /\ ret.status = "ok"
        /\ Len(ret.timestamps) = 24 * DaysApart + 1
        /\ \A d \in inp.start_date.doy .. (inp.end_date.doy - 1) :
              Cardinality(TimestampsOn(d)) = 24
        /\ \A i \in TimestampsOn(inp.end_date.doy) :
              ret.timestamps[i] = (inp.end_date.doy - 1) * 24 * 60
        /\ Cardinality(TimestampsOn(inp.end_date.doy)) = 1
        /\ Len(ret.rows) = (24 * DaysApart + 1) * AssetCount
        /\ LastSave.status = "ok"
        /\ Len(LastSave.written) = DaysApart + 1
        /\ Cardinality(Written(LastSave)) = DaysApart + 1
        /\ LastSave.written[DaysApart + 1] = ExpectedPartitionPath(inp.end_date.doy)
        /\ fs.files[ExpectedPartitionPath(inp.end_date.doy)].footer
        /\ Len(fs.files[ExpectedPartitionPath(inp.end_date.doy)].rows) = AssetCount
        /\ \A d \in inp.start_date.doy .. (inp.end_date.doy - 1) :
              Len(fs.files[ExpectedPartitionPath(d)].rows) = 24 * AssetCount

C30_Witness ==
    /\ sv.calls # <<>>
    /\ sv.kind = "generation"
    /\ inp.start_date = DateOnly(59)
    /\ DaysApart = 2
    /\ AssetCount = 3
    /\ Len(ret.rows) = 147
    /\ Len(LastSave.written) = 3
    /\ Len(fs.files[ExpectedPartitionPath(61)].rows) = 3

====
